---- MODULE Spec2Model ----
(***************************************************************************)
(* Model of the football information service: MemoryCache (TTL cache),     *)
(* the Team/League resolvers, the MongoDB data client and the              *)
(* FootballInfoService orchestration built on them.                        *)
(*                                                                         *)
(* Time is the wall clock read by datetime.now(), in whole seconds.        *)
(* Python None is modelled by an explicit option record (NoneV / Some) for *)
(* values and by NoneId for Optional[int].                                 *)
(***************************************************************************)
EXTENDS Integers, Sequences, FiniteSets, TLC

VARIABLES
    now,      \* the value datetime.now() returns, in seconds
    cache,    \* MemoryCache._cache : key -> CacheEntry
    stats,    \* MemoryCache._stats : hits / misses / evictions
    last,     \* observation of the step just taken: the call, what it returned
    today,    \* the calendar date datetime.now() shows: [year, month]
    teams,    \* TeamResolver.teams, in load order: <<[name, id], ...>>
    leagues,  \* LeagueResolver.leagues / league_aliases, in load order:
              \* <<[name, id, aliases], ...>>
    matches,  \* the store's matches collection: a set of documents
    standings,\* the store's standings collection: a set of documents
    client_db,\* MongoDBClient._db is not None
    pool,     \* MongoConnectionPool: the class slot _instance, the instances
              \* made so far, and MongoDBClient._pool
    loop      \* the asyncio event loop: its ready queue, the task it is
              \* running and the tasks that have finished

svc == <<today, teams, leagues, matches, standings, client_db, pool, loop>>
vars == <<now, cache, stats, last, today, teams, leagues, matches, standings,
          client_db, pool, loop>>

(***************************************************************************)
(* Bounds of the model                                                     *)
(***************************************************************************)
MaxTime == 3      \* the clock runs over 0..MaxTime
MaxGets == 2      \* at most this many MemoryCache.get calls in a behaviour
MaxCount == 8     \* the hit and miss counters get_stats is applied to
MaxTasks == 3     \* at most this many tasks are scheduled in a behaviour
MaxPools == 3     \* at most this many MongoConnectionPool instances are made
MaxLeagues == 2   \* at most this many leagues in a table LeagueResolver loads

(***************************************************************************)
(* Optional values                                                         *)
(***************************************************************************)
NoneV == [isNone |-> TRUE, v |-> <<>>]
Some(x) == [isNone |-> FALSE, v |-> x]
NoneId == -1

(***************************************************************************)
(* CacheEntry                                                              *)
(***************************************************************************)
CacheEntry(data, cached_at, ttl) ==
    [data |-> data, cached_at |-> cached_at, ttl |-> ttl]

is_expired_late(entry, t) == (t - entry.cached_at) > entry.ttl + 1

is_expired_at_ttl(entry, t) == (t - entry.cached_at) >= entry.ttl

\* CacheEntry.is_expired, with t the value of datetime.now() at the call
is_expired(entry, t) == (t - entry.cached_at) > entry.ttl

(***************************************************************************)
(* MemoryCache: each operation maps the cache state (c = _cache,           *)
(* s = _stats) to the state after the call and the value returned.         *)
(***************************************************************************)
EmptyCache == [k \in {} |-> NoneV]
ZeroStats == [hits |-> 0, misses |-> 0, evictions |-> 0]

Without(c, keys) == [k \in (DOMAIN c) \ keys |-> c[k]]

Bump(s, field) == [s EXCEPT ![field] = @ + 1]

MemoryCache_get_sliding(c, s, key, t) ==
    IF key \notin DOMAIN c
    THEN [cache |-> c, stats |-> Bump(s, "misses"), ret |-> NoneV]
    ELSE IF is_expired(c[key], t)
    THEN [cache |-> Without(c, {key}),
          stats |-> Bump(Bump(s, "misses"), "evictions"),
          ret |-> NoneV]
    ELSE [cache |-> [c EXCEPT ![key].cached_at = t],
          stats |-> Bump(s, "hits"), ret |-> Some(c[key].data)]

MemoryCache_get_keep_expired(c, s, key, t) ==
    IF key \notin DOMAIN c
    THEN [cache |-> c, stats |-> Bump(s, "misses"), ret |-> NoneV]
    ELSE IF is_expired(c[key], t)
    THEN [cache |-> c,
          stats |-> Bump(Bump(s, "misses"), "evictions"),
          ret |-> NoneV]
    ELSE [cache |-> c, stats |-> Bump(s, "hits"), ret |-> Some(c[key].data)]

\* an expired entry is dropped and reported as a miss, but never counted
MemoryCache_get_uncounted_expiry(c, s, key, t) ==
    IF key \notin DOMAIN c
    THEN [cache |-> c, stats |-> Bump(s, "misses"), ret |-> NoneV]
    ELSE IF is_expired(c[key], t)
    THEN [cache |-> Without(c, {key}),
          stats |-> Bump(s, "misses"),
          ret |-> NoneV]
    ELSE [cache |-> c, stats |-> Bump(s, "hits"), ret |-> Some(c[key].data)]

MemoryCache_get(c, s, key, t) ==
    IF key \notin DOMAIN c
    THEN [cache |-> c, stats |-> Bump(s, "misses"), ret |-> NoneV]
    ELSE IF is_expired(c[key], t)
    THEN [cache |-> Without(c, {key}),
          stats |-> Bump(Bump(s, "misses"), "evictions"),
          ret |-> NoneV]
    ELSE [cache |-> c, stats |-> Bump(s, "hits"), ret |-> Some(c[key].data)]

MemoryCache_set_if_absent(c, key, value, ttl, t) ==
    IF key \in DOMAIN c THEN c
    ELSE [k \in (DOMAIN c) \cup {key} |->
            IF k = key THEN CacheEntry(value, t, ttl) ELSE c[k]]

MemoryCache_set(c, key, value, ttl, t) ==
    [k \in (DOMAIN c) \cup {key} |->
        IF k = key THEN CacheEntry(value, t, ttl) ELSE c[k]]

MemoryCache_delete(c, key) ==
    IF key \in DOMAIN c
    THEN [cache |-> Without(c, {key}), ret |-> TRUE]
    ELSE [cache |-> c, ret |-> FALSE]

\* _cache.clear() runs first, so len(self._cache) is taken of the emptied dict
MemoryCache_clear(c, s) ==
    [cache |-> EmptyCache,
     stats |-> [s EXCEPT !.evictions = @ + Cardinality(DOMAIN EmptyCache)]]

expired_keys(c, t) == {k \in DOMAIN c : is_expired(c[k], t)}

MemoryCache_cleanup_expired_one(c, s, t) ==
    LET ek == expired_keys(c, t)
        gone == IF ek = {} THEN {} ELSE {CHOOSE k \in ek : TRUE}
    IN  [cache |-> Without(c, gone),
         stats |-> [s EXCEPT !.evictions = @ + Cardinality(ek)],
         ret |-> Cardinality(ek)]

MemoryCache_cleanup_expired(c, s, t) ==
    LET ek == expired_keys(c, t)
    IN  [cache |-> Without(c, ek),
         stats |-> [s EXCEPT !.evictions = @ + Cardinality(ek)],
         ret |-> Cardinality(ek)]

round_down(num, den) == (100 * num) \div den

\* round(num / den, 2), in hundredths.  Python rounds to the nearest
\* hundredth and an exact tie to the even one; for den < 40 a tie is a
\* multiple of 1/8, which the float division holds exactly.
round(num, den) ==
    LET q == (100 * num) \div den
        r == (100 * num) % den
    IN  IF 2 * r < den THEN q
        ELSE IF 2 * r > den THEN q + 1
        ELSE IF q % 2 = 0 THEN q ELSE q + 1

\* get_stats: the counters, the size and the hit rate (in hundredths)
MemoryCache_get_stats(c, s) ==
    LET total_requests == s.hits + s.misses
        hit_rate == IF total_requests > 0
                    THEN round(s.hits, total_requests) ELSE 0
    IN  [size |-> Cardinality(DOMAIN c),
         hits |-> s.hits, misses |-> s.misses, evictions |-> s.evictions,
         hit_rate |-> hit_rate,
         total_requests |-> total_requests]

(***************************************************************************)
(* Observation of a step: which operation ran, with which arguments, and   *)
(* what the caller saw.  ret is Some(x) for a returned value x and NoneV   *)
(* for a returned None or a raised exception; outcome is "return" or the   *)
(* class of the exception raised.  For a service call that reached the     *)
(* cache: key is its cache key, target what it asked for, at the clock     *)
(* when it started, before the entry then stored under key, client and     *)
(* writes the DataClient calls and the cache writes it made.               *)
(***************************************************************************)
Target(kind, scope, id, limit, season) ==
    [kind |-> kind, scope |-> scope, id |-> id, limit |-> limit,
     season |-> season]
NoTarget == Target("", "", NoneId, 0, "")

NoObs ==
    [op |-> "init", key |-> "", value |-> <<>>, ttl |-> 0, name |-> NoneV,
     ret |-> NoneV, outcome |-> "return", carried |-> <<>>,
     target |-> NoTarget, at |-> 0, before |-> NoneV,
     client |-> <<>>, writes |-> <<>>, asked |-> 0, status |-> 0]

(***************************************************************************)
(* MongoConnectionPool state.  An instance is known by its position in     *)
(* objs; 0 stands for None.  _client and _db start as the class defaults   *)
(* (None) and become instance attributes in _initialize.                   *)
(***************************************************************************)
\* slot: MongoConnectionPool._instance; objs: the instances made so far
\* (closed records that close() was called on the instance); held: the
\* instances callers have a reference to; client_pool: MongoDBClient._pool
NoPool == [slot |-> 0, objs |-> <<>>, held |-> {}, client_pool |-> 0]

\* super().__new__(cls): _client and _db read the class defaults
NewPoolObject == [_client |-> NoneV, _db |-> NoneV, closed |-> FALSE]

\* the outcome of _initialize: the instance afterwards, the exception raised
\* ("" for none) with its original_error, and the connection steps made
InitResult(obj, exc, original_error, steps) ==
    [obj |-> obj, exc |-> exc, original_error |-> original_error,
     steps |-> steps]

_initialize_retry(obj, config, open_ok, ping_ok) ==
    IF ~open_ok
    THEN InitResult(obj, "MongoDBConnectionError", "ConfigurationError",
                    <<"open", "open">>)
    ELSE IF ~ping_ok
    THEN InitResult([obj EXCEPT !._client = Some(config)],
                    "MongoDBConnectionError", "ServerSelectionTimeoutError",
                    <<"open", "ping", "ping">>)
    ELSE InitResult([obj EXCEPT !._client = Some(config),
                                !._db = Some(config.database_name)],
                    "", "", <<"open", "ping", "select">>)

\* MongoConnectionPool._initialize.  open_ok: MongoClient(...) raises
\* nothing; ping_ok: the ping command raises nothing.
_initialize(obj, config, open_ok, ping_ok) ==
    IF ~open_ok
    THEN InitResult(obj, "MongoDBConnectionError", "ConfigurationError",
                    <<"open">>)
    ELSE IF ~ping_ok
    THEN InitResult([obj EXCEPT !._client = Some(config)],
                    "MongoDBConnectionError", "ServerSelectionTimeoutError",
                    <<"open", "ping">>)
    ELSE InitResult([obj EXCEPT !._client = Some(config),
                                !._db = Some(config.database_name)],
                    "", "", <<"open", "ping", "select">>)

MongoConnectionPool_new_reinit(p, config, open_ok, ping_ok) ==
    LET id == IF p.slot = 0 THEN Len(p.objs) + 1 ELSE p.slot
        objs == IF p.slot = 0 THEN Append(p.objs, NewPoolObject) ELSE p.objs
        made == [p EXCEPT !.slot = id, !.objs = objs]
    IN  IF config.isNone
        THEN [pool |-> [made EXCEPT !.held = @ \cup {id}], ret |-> id,
              exc |-> "", original_error |-> "", steps |-> <<>>]
        ELSE LET r == _initialize(made.objs[id], config.v, open_ok, ping_ok)
                 after == [made EXCEPT !.objs[id] = r.obj]
             IN  IF r.exc # ""
                 THEN [pool |-> after, ret |-> 0, exc |-> r.exc,
                       original_error |-> r.original_error,
                       steps |-> r.steps]
                 ELSE [pool |-> [after EXCEPT !.held = @ \cup {id}],
                       ret |-> id, exc |-> "", original_error |-> "",
                       steps |-> r.steps]

\* MongoConnectionPool.__new__(cls, config): the pool afterwards, the
\* instance returned (0 when it raises), the exception and the steps made
MongoConnectionPool_new(p, config, open_ok, ping_ok) ==
    IF p.slot = 0
    THEN LET id == Len(p.objs) + 1
             made == [p EXCEPT !.slot = id,
                               !.objs = Append(@, NewPoolObject)]
         IN  IF config.isNone
             THEN [pool |-> [made EXCEPT !.held = @ \cup {id}], ret |-> id,
                   exc |-> "", original_error |-> "", steps |-> <<>>]
             ELSE LET r == _initialize(NewPoolObject, config.v, open_ok,
                                       ping_ok)
                      after == [made EXCEPT !.objs[id] = r.obj]
                  IN  IF r.exc # ""
                      THEN [pool |-> after, ret |-> 0, exc |-> r.exc,
                            original_error |-> r.original_error,
                            steps |-> r.steps]
                      ELSE [pool |-> [after EXCEPT !.held = @ \cup {id}],
                            ret |-> id, exc |-> "", original_error |-> "",
                            steps |-> r.steps]
    ELSE [pool |-> [p EXCEPT !.held = @ \cup {p.slot}], ret |-> p.slot,
          exc |-> "", original_error |-> "", steps |-> <<>>]

\* MongoConnectionPool.get_database on instance id
MongoConnectionPool_get_database(p, id) ==
    IF p.objs[id]._db.isNone
    THEN [ret |-> NoneV, exc |-> "RuntimeError"]
    ELSE [ret |-> p.objs[id]._db, exc |-> ""]

MongoConnectionPool_close_keep_slot(p, id) ==
    IF ~p.objs[id]._client.isNone
    THEN [p EXCEPT !.objs[id] = [NewPoolObject EXCEPT !.closed = TRUE]]
    ELSE [p EXCEPT !.objs[id].closed = TRUE]

\* MongoConnectionPool.close on instance id
MongoConnectionPool_close(p, id) ==
    IF ~p.objs[id]._client.isNone
    THEN [p EXCEPT !.objs[id] = [NewPoolObject EXCEPT !.closed = TRUE],
                   !.slot = 0]
    ELSE [p EXCEPT !.objs[id].closed = TRUE]

\* the event loop with nothing scheduled
IdleLoop == [ready |-> <<>>, cur |-> <<>>, done |-> <<>>, spawned |-> 0]

(***************************************************************************)
(* The clock                                                               *)
(***************************************************************************)
Tick ==
    /\ now < MaxTime
    /\ now' = now + 1
    /\ last' = [NoObs EXCEPT !.op = "tick"]
    /\ UNCHANGED <<cache, stats, svc>>

(***************************************************************************)
(* MemoryCache driven directly: SpecCache                                  *)
(***************************************************************************)
CacheKeys == {"k1", "k2"}
CacheValues == {<<>>, <<7>>}
CacheTtls == {0, 1, 2}

CacheGet(key) ==
    /\ stats.hits + stats.misses < MaxGets
    /\ LET r == MemoryCache_get(cache, stats, key, now)
       IN  /\ cache' = r.cache
           /\ stats' = r.stats
           /\ last' = [NoObs EXCEPT !.op = "get", !.key = key, !.ret = r.ret]
    /\ UNCHANGED <<now, svc>>

CacheSet(key, value, ttl) ==
    /\ cache' = MemoryCache_set(cache, key, value, ttl, now)
    /\ last' = [NoObs EXCEPT !.op = "set", !.key = key, !.value = value,
                             !.ttl = ttl]
    /\ UNCHANGED <<now, stats, svc>>

CacheDelete(key) ==
    /\ LET r == MemoryCache_delete(cache, key)
       IN  /\ cache' = r.cache
           /\ last' = [NoObs EXCEPT !.op = "delete", !.key = key,
                                    !.ret = Some(r.ret)]
    /\ UNCHANGED <<now, stats, svc>>

CacheClear ==
    /\ LET r == MemoryCache_clear(cache, stats)
       IN  /\ cache' = r.cache
           /\ stats' = r.stats
    /\ last' = [NoObs EXCEPT !.op = "clear"]
    /\ UNCHANGED <<now, svc>>

CacheCleanupExpired ==
    /\ LET r == MemoryCache_cleanup_expired(cache, stats, now)
       IN  /\ cache' = r.cache
           /\ stats' = r.stats
           /\ last' = [NoObs EXCEPT !.op = "cleanup_expired",
                                    !.ret = Some(r.ret)]
    /\ UNCHANGED <<now, svc>>

InitCache ==
    /\ now = 0
    /\ cache = EmptyCache
    /\ stats = ZeroStats
    /\ last = NoObs
    /\ today = [year |-> 2024, month |-> 8]
    /\ teams = <<>>
    /\ leagues = <<>>
    /\ matches = {}
    /\ standings = {}
    /\ client_db = FALSE
    /\ pool = NoPool
    /\ loop = IdleLoop

NextCache ==
    \/ Tick
    \/ \E key \in CacheKeys : CacheGet(key)
    \/ \E key \in CacheKeys, value \in CacheValues, ttl \in CacheTtls :
          CacheSet(key, value, ttl)
    \/ \E key \in CacheKeys : CacheDelete(key)
    \/ CacheClear
    \/ CacheCleanupExpired

SpecCache == InitCache /\ [][NextCache]_vars

(***************************************************************************)
(* get_stats applied to a cache whose counters stand anywhere in           *)
(* 0..MaxCount                                                             *)
(***************************************************************************)
GetStats ==
    /\ last.op = "init"
    /\ last' = [NoObs EXCEPT !.op = "get_stats",
                             !.ret = Some(MemoryCache_get_stats(cache, stats))]
    /\ UNCHANGED <<now, cache, stats, svc>>

InitStats ==
    /\ now = 0
    /\ cache = EmptyCache
    /\ stats \in [hits : 0..MaxCount, misses : 0..MaxCount, evictions : {0}]
    /\ last = NoObs
    /\ today = [year |-> 2024, month |-> 8]
    /\ teams = <<>>
    /\ leagues = <<>>
    /\ matches = {}
    /\ standings = {}
    /\ client_db = FALSE
    /\ pool = NoPool
    /\ loop = IdleLoop

NextStats == GetStats

SpecStats == InitStats /\ [][NextStats]_vars

(***************************************************************************)
(* Strings: a name is a sequence of one-character strings, so that         *)
(* str.lower(), str.strip(), == and the `in` substring test are computed.  *)
(***************************************************************************)
LowerChar(ch) ==
    CASE ch = "A" -> "a"
      [] ch = "B" -> "b"
      [] ch = "L" -> "l"
      [] OTHER -> ch

lower(str) == [i \in 1..Len(str) |-> LowerChar(str[i])]

IsSpace(ch) == ch = " "

RECURSIVE lstrip(_)
lstrip(str) ==
    IF str # <<>> /\ IsSpace(Head(str)) THEN lstrip(Tail(str)) ELSE str

RECURSIVE rstrip(_)
rstrip(str) ==
    IF str # <<>> /\ IsSpace(str[Len(str)])
    THEN rstrip(SubSeq(str, 1, Len(str) - 1))
    ELSE str

strip(str) == rstrip(lstrip(str))

\* needle in hay
contains(hay, needle) ==
    \E i \in 0..(Len(hay) - Len(needle)) :
        SubSeq(hay, i + 1, i + Len(needle)) = needle

\* the first of the matching positions of a table, in load order; 0: none
FirstIndex(found) ==
    IF found = {} THEN 0
    ELSE CHOOSE i \in found : \A j \in found : i <= j

(***************************************************************************)
(* TeamResolver.resolve and LeagueResolver.resolve                         *)
(***************************************************************************)
TeamResolver_resolve_shortest(table, query) ==
    LET query_lower == strip(lower(query))
        partial == {i \in 1..Len(table) :
                       contains(lower(table[i].name), query_lower)}
        best == {i \in partial :
                    \A j \in partial : Len(table[i].name) <= Len(table[j].name)}
    IN  IF best # {} THEN table[FirstIndex(best)].id ELSE NoneId

TeamResolver_resolve(table, query) ==
    LET query_lower == strip(lower(query))
        rows == 1..Len(table)
        exact == {i \in rows : lower(table[i].name) = query_lower}
        partial == {i \in rows :
                       contains(lower(table[i].name), query_lower)}
    IN  IF FirstIndex(exact) # 0
        THEN table[FirstIndex(exact)].id
        ELSE IF FirstIndex(partial) # 0
        THEN table[FirstIndex(partial)].id
        ELSE NoneId

LeagueResolver_resolve_first(table, query) ==
    LET query_lower == strip(lower(query))
        any == {i \in 1..Len(table) :
                   \/ lower(table[i].name) = query_lower
                   \/ \E k \in 1..Len(table[i].aliases) :
                         contains(lower(table[i].aliases[k]), query_lower)}
    IN  IF FirstIndex(any) # 0 THEN table[FirstIndex(any)].id ELSE NoneId

LeagueResolver_resolve(table, query) ==
    LET query_lower == strip(lower(query))
        rows == 1..Len(table)
        exact == {i \in rows : lower(table[i].name) = query_lower}
        alias == {i \in rows :
                     \E k \in 1..Len(table[i].aliases) :
                         lower(table[i].aliases[k]) = query_lower}
        partial == {i \in rows :
                       \E k \in 1..Len(table[i].aliases) :
                           contains(lower(table[i].aliases[k]), query_lower)}
    IN  IF FirstIndex(exact) # 0
        THEN table[FirstIndex(exact)].id
        ELSE IF FirstIndex(alias) # 0
        THEN table[FirstIndex(alias)].id
        ELSE IF FirstIndex(partial) # 0
        THEN table[FirstIndex(partial)].id
        ELSE NoneId

TeamResolver_get_name_at(table, entity_id) ==
    IF entity_id \in 1..Len(table) THEN Some(table[entity_id].name)
    ELSE NoneV

\* get_name: the first name of the table, in load order, that has the id
TeamResolver_get_name(table, entity_id) ==
    LET found == {i \in 1..Len(table) : table[i].id = entity_id}
    IN  IF found = {} THEN NoneV ELSE Some(table[FirstIndex(found)].name)

LeagueResolver_get_name(table, entity_id) ==
    LET found == {i \in 1..Len(table) : table[i].id = entity_id}
    IN  IF found = {} THEN NoneV ELSE Some(table[FirstIndex(found)].name)

(***************************************************************************)
(* MongoDBClient.  A document is a record; a field the document lacks is   *)
(* absent from the record.  Of the fields of Match and Standing the model  *)
(* keeps the identifiers, the season, the kickoff date, the status and the *)
(* position; names, scores and counts are left out.                        *)
(***************************************************************************)
MatchRequired ==
    {"_id", "home_team_id", "away_team_id", "league_id", "season", "date",
     "status"}
StandingRequired == {"_id", "team_id", "league_id", "season", "position"}

\* Match(**doc) / Standing(**doc): validation fails on a missing field
MatchValid(doc) == MatchRequired \subseteq DOMAIN doc
StandingValid(doc) == StandingRequired \subseteq DOMAIN doc

Match(doc) ==
    [cls |-> "Match", id |-> doc._id, home_team_id |-> doc.home_team_id,
     away_team_id |-> doc.away_team_id, league_id |-> doc.league_id,
     season |-> doc.season, date |-> doc.date, status |-> doc.status]

Standing(doc) ==
    [cls |-> "Standing", id |-> doc._id, team_id |-> doc.team_id,
     league_id |-> doc.league_id, season |-> doc.season,
     position |-> doc.position]

\* model_dump(by_alias=False): the plain dict of the model's fields
model_dump(m) == [f \in (DOMAIN m) \ {"cls"} |-> m[f]]

Has(doc, f, v) == f \in DOMAIN doc /\ doc[f] = v

fixtures_query_no_team(status, cmp, t, league_id, team_id) ==
    [status |-> status, date_cmp |-> cmp, date |-> t,
     league_id |-> league_id, team_or |-> NoneId]

\* the filter dict of get_upcoming_fixtures / get_past_fixtures
fixtures_query(status, cmp, t, league_id, team_id) ==
    [status |-> status, date_cmp |-> cmp, date |-> t,
     league_id |-> league_id, team_or |-> team_id]

\* collection.find(query) on matches
find_matches(coll, q) ==
    {doc \in coll :
        /\ Has(doc, "status", q.status)
        /\ "date" \in DOMAIN doc
        /\ IF q.date_cmp = "$gte" THEN doc.date >= q.date
                                  ELSE doc.date < q.date
        /\ q.league_id # NoneId => Has(doc, "league_id", q.league_id)
        /\ q.team_or # NoneId =>
              \/ Has(doc, "home_team_id", q.team_or)
              \/ Has(doc, "away_team_id", q.team_or)}

standings_query(league_id, season) ==
    [league_id |-> league_id, season |-> season]

find_standings(coll, q) ==
    {doc \in coll :
        /\ Has(doc, "league_id", q.league_id)
        /\ Has(doc, "season", q.season)}

\* cursor.sort(field, direction): every order of the documents that is sorted
\* on the field; documents with equal values come in any order
RECURSIVE sort(_, _, _)
sort(docs, field, direction) ==
    IF docs = {} THEN {<<>>}
    ELSE UNION {
            {<<d>> \o rest : rest \in sort(docs \ {d}, field, direction)} :
            d \in {x \in docs : \A y \in docs :
                      IF direction = 1 THEN x[field] <= y[field]
                                       ELSE x[field] >= y[field]}}

Abs(n) == IF n < 0 THEN -n ELSE n

\* cursor.limit(n): 0 means no limit, a negative n limits to |n|
limit_cursor(docs, n) ==
    IF n = 0 \/ Abs(n) >= Len(docs) THEN docs ELSE SubSeq(docs, 1, Abs(n))

\* [Match(**doc) for doc in cursor], [Standing(**doc) for doc in cursor]
\* and [m.model_dump(by_alias=False) for m in models]
Matches(cur) == [i \in 1..Len(cur) |-> Match(cur[i])]
Standings(cur) == [i \in 1..Len(cur) |-> Standing(cur[i])]
model_dumps(models) == [i \in 1..Len(models) |-> model_dump(models[i])]

Raised(exc, query) == [exc |-> exc, value |-> <<>>, query |-> query]
Returned(value) == [exc |-> "", value |-> value, query |-> <<>>]

\* The outcomes of one DataClient fixtures query.  db_ok: _db is set;
\* io_ok: the store round trip raises nothing.  When _get_db() raises, the
\* handler's `query=query` reads a local that was never assigned.
fixtures_outcomes(db_ok, io_ok, coll, q, direction, limit) ==
    IF ~db_ok THEN {Raised("UnboundLocalError", <<>>)}
    ELSE IF ~io_ok THEN {Raised("MongoDBQueryError", q)}
    ELSE {IF \A i \in 1..Len(cur) : MatchValid(cur[i])
          THEN Returned(Matches(cur))
          ELSE Raised("MongoDBQueryError", q) :
          cur \in {limit_cursor(o, limit) :
                      o \in sort(find_matches(coll, q), "date", direction)}}

MongoDBClient_get_upcoming_fixtures(db_ok, io_ok, coll, league_id, team_id, limit, t) ==
    fixtures_outcomes(db_ok, io_ok, coll,
        fixtures_query("upcoming", "$gte", t, league_id, team_id), 1, limit)

MongoDBClient_get_past_fixtures_ascending(db_ok, io_ok, coll, league_id, team_id, limit, t) ==
    fixtures_outcomes(db_ok, io_ok, coll,
        fixtures_query("finished", "$lt", t, league_id, team_id), 1, limit)

MongoDBClient_get_past_fixtures(db_ok, io_ok, coll, league_id, team_id, limit, t) ==
    fixtures_outcomes(db_ok, io_ok, coll,
        fixtures_query("finished", "$lt", t, league_id, team_id), -1, limit)

MongoDBClient_get_standings_unsorted(db_ok, io_ok, coll, league_id, season) ==
    LET q == standings_query(league_id, season)
    IN  IF ~db_ok THEN {Raised("UnboundLocalError", <<>>)}
        ELSE IF ~io_ok THEN {Raised("MongoDBQueryError", q)}
        ELSE {IF \A i \in 1..Len(cur) : StandingValid(cur[i])
              THEN Returned(Standings(cur))
              ELSE Raised("MongoDBQueryError", q) :
              cur \in sort(find_standings(coll, q), "league_id", 1)}

\* season is never None when the service calls: it is passed as given
MongoDBClient_get_standings(db_ok, io_ok, coll, league_id, season) ==
    LET q == standings_query(league_id, season)
    IN  IF ~db_ok THEN {Raised("UnboundLocalError", <<>>)}
        ELSE IF ~io_ok THEN {Raised("MongoDBQueryError", q)}
        ELSE {IF \A i \in 1..Len(cur) : StandingValid(cur[i])
              THEN Returned(Standings(cur))
              ELSE Raised("MongoDBQueryError", q) :
              cur \in sort(find_standings(coll, q), "position", 1)}

(***************************************************************************)
(* FootballInfoService                                                     *)
(***************************************************************************)
\* FootballInfoServiceConfig: the three cache TTLs, in seconds
cache_ttl_upcoming_matches == 1
cache_ttl_past_matches == 2
cache_ttl_standings == 0

_current_season_calendar(d) == ToString(d.year)

_current_season(d) == ToString(IF d.month >= 8 THEN d.year ELSE d.year - 1)

\* the f-strings that build the cache keys
key_team_upcoming(team_id, limit) ==
    "upcoming:team:" \o ToString(team_id) \o ":" \o ToString(limit)
key_league_upcoming_as_team(league_id, limit) ==
    "upcoming:team:" \o ToString(league_id) \o ":" \o ToString(limit)
key_league_upcoming(league_id, limit) ==
    "upcoming:league:" \o ToString(league_id) \o ":" \o ToString(limit)
key_team_past(team_id, limit) ==
    "past:team:" \o ToString(team_id) \o ":" \o ToString(limit)
key_league_past(league_id, limit) ==
    "past:league:" \o ToString(league_id) \o ":" \o ToString(limit)
key_standings(league_id, season) ==
    "standings:league:" \o ToString(league_id) \o ":" \o season

\* a DataClient call as the service makes it
ClientCall(fn, league_id, team_id, limit, season) ==
    [fn |-> fn, league_id |-> league_id, team_id |-> team_id,
     limit |-> limit, season |-> season]

\* the time a store round trip may take
FetchDelays == {0, 1}

\* a name of nothing but whitespace taken as no name
no_name_blank(name) == name.isNone \/ strip(name.v) = <<>>

no_name_only_none(name) == name.isNone

\* `if not team_name:` -- None and the empty string are falsy
no_name(name) == name.isNone \/ name.v = <<>>

is_hit_truthy(cached_data) == ~cached_data.isNone /\ cached_data.v # <<>>

\* `if cached_data is not None:`
is_hit(cached_data) == ~cached_data.isNone

(***************************************************************************)
(* agents/tools.py: what a tool function returns for the outcome of its    *)
(* service call.  A reply is the dict returned, or the exception that      *)
(* leaves the function; the text of an error is kept apart from the name   *)
(* the f-string puts into it.                                              *)
(***************************************************************************)
ToolError(text, arg, suggestion) ==
    [error |-> [text |-> text, arg |-> arg], suggestion |-> suggestion]
ToolReturn(tool, dict) == [tool |-> tool, exc |-> "", dict |-> dict]
ToolRaise(tool, exc) == [tool |-> tool, exc |-> exc, dict |-> <<>>]

clamp_limit_low_only(limit) == IF limit < 1 THEN 1 ELSE limit

\* `if limit < 1 or limit > 20: limit = min(max(limit, 1), 20)`
clamp_limit(limit) ==
    IF limit < 1 THEN 1 ELSE IF limit > 20 THEN 20 ELSE limit

NothingFound(tool) ==
    CASE tool = "get_upcoming_matches" ->
             "No encontre proximos partidos programados para"
      [] tool = "get_match_results" ->
             "No encontre resultados recientes para"
      [] OTHER -> "No encontre la tabla de posiciones para"

QueryProblem(tool) ==
    CASE tool = "get_upcoming_matches" ->
             "Hubo un problema al buscar los partidos"
      [] tool = "get_match_results" ->
             "Hubo un problema al buscar los resultados"
      [] OTHER -> "Hubo un problema al buscar la tabla de posiciones"

tool_reply_uncaught(tool, obs) ==
    CASE obs.outcome = "return" ->
             ToolReturn(tool, [data |-> obs.ret.v])
      [] obs.outcome = "InvalidTeamError" ->
             ToolReturn(tool, ToolError("No encontre el equipo", obs.name.v,
                 "Verifica que el nombre este escrito correctamente"))
      [] obs.outcome = "InvalidLeagueError" ->
             ToolReturn(tool, ToolError("No encontre la liga", obs.name.v,
                 "Verifica que el nombre este escrito correctamente"))
      [] obs.outcome = "MongoDBQueryError" ->
             ToolReturn(tool, ToolError(QueryProblem(tool), <<>>,
                 "Intenta reformular tu pregunta"))
      [] OTHER -> ToolRaise(tool, obs.outcome)

\* the try/except of the three tool functions; get_standings has no
\* handler for InvalidTeamError, which its service call cannot raise
tool_reply(tool, obs) ==
    CASE obs.outcome = "return" ->
             IF obs.ret.v = <<>>
             THEN ToolReturn(tool, [message |-> [text |-> NothingFound(tool),
                                                 arg |-> obs.name.v],
                                    data |-> <<>>])
             ELSE ToolReturn(tool, [data |-> obs.ret.v])
      [] obs.outcome = "InvalidTeamError" /\ tool # "get_standings" ->
             ToolReturn(tool, ToolError("No encontre el equipo", obs.name.v,
                 "Verifica que el nombre este escrito correctamente"))
      [] obs.outcome = "InvalidLeagueError" ->
             ToolReturn(tool, ToolError("No encontre la liga", obs.name.v,
                 "Verifica que el nombre este escrito correctamente"))
      [] obs.outcome = "MongoDBConnectionError" ->
             ToolReturn(tool, ToolError(
                 "No puedo acceder a la base de datos en este momento", <<>>,
                 "Intenta nuevamente en unos momentos"))
      [] obs.outcome = "MongoDBQueryError" ->
             ToolReturn(tool, ToolError(QueryProblem(tool), <<>>,
                 "Intenta reformular tu pregunta"))
      [] OTHER ->
             ToolReturn(tool, ToolError("Ocurrio un problema inesperado",
                 <<>>,
                 "Por favor intenta de nuevo o contacta al administrador"))

\* who calls the service: a tool function with the limit it was given, or
\* anyone else
FromTool(tool, limit) == [tool |-> tool, limit |-> limit]
Direct == FromTool("", 0)

\* the observation of a service call: with the reply of the tool function
\* that made it in value, and the limit that function was given in asked
Observed(caller, obs) ==
    IF caller.tool = "" THEN obs
    ELSE [obs EXCEPT !.value = tool_reply(caller.tool, obs),
                     !.asked = caller.limit]

\* The body the five operations share.  id is the result of the operation's
\* resolver call on the name and invalid the error it raises on not-found;
\* key is its cache key; fetch[io] the outcomes of its DataClient call and
\* call that call; target names what is asked, for the observation; caller
\* is where the call comes from: FromTool(..) or Direct.
ServeFor(caller, op, name, id, invalid, target, key, fetch, call, ttl) ==
    IF no_name(name)
    THEN /\ last' = Observed(caller, [NoObs EXCEPT !.op = op, !.name = name,
                                                    !.ret = Some(<<>>)])
         /\ UNCHANGED <<now, cache, stats, svc>>
    ELSE
    IF id = NoneId
    THEN /\ last' = Observed(caller,
                            [NoObs EXCEPT !.op = op, !.name = name,
                                          !.outcome = invalid,
                                          !.carried = name.v])
         /\ UNCHANGED <<now, cache, stats, svc>>
    ELSE
    \E cache_key \in {key} :
    \E got \in {MemoryCache_get(cache, stats, cache_key, now)} :
    \E seen \in {[NoObs EXCEPT
                    !.op = op, !.name = name, !.key = cache_key,
                    !.target = target, !.at = now,
                    !.before = IF cache_key \in DOMAIN cache
                               THEN Some(cache[cache_key]) ELSE NoneV]} :
        /\ stats.hits + stats.misses < MaxGets
        /\ IF is_hit(got.ret)
           THEN /\ cache' = got.cache
                /\ stats' = got.stats
                /\ last' = Observed(caller, [seen EXCEPT !.ret = got.ret])
                /\ UNCHANGED <<now, svc>>
           ELSE \E io_ok \in BOOLEAN :
                \E out \in fetch[io_ok] :
                \E delay \in FetchDelays :
                /\ now + delay <= MaxTime
                /\ now' = now + delay
                /\ stats' = got.stats
                /\ UNCHANGED svc
                /\ IF out.exc # ""
                   THEN /\ cache' = got.cache
                        /\ last' = Observed(caller,
                                      [seen EXCEPT !.outcome = out.exc,
                                                   !.client = <<call>>])
                   ELSE \E result \in {model_dumps(out.value)} :
                        /\ cache' = MemoryCache_set(got.cache, cache_key,
                                                    result, ttl, now + delay)
                        /\ last' = Observed(caller,
                                      [seen EXCEPT
                                         !.ret = Some(result),
                                         !.client = <<call>>,
                                         !.writes = <<[key |-> cache_key,
                                                       ttl |-> ttl]>>])

\* a direct call of the operation
Serve(op, name, id, invalid, target, key, fetch, call, ttl) ==
    ServeFor(Direct, op, name, id, invalid, target, key, fetch, call, ttl)

team_resolver_resolve(query) == TeamResolver_resolve(teams, query)
league_resolver_resolve(query) == LeagueResolver_resolve(leagues, query)

get_team_upcoming_matches_from(caller, team_name, limit) ==
    LET id == team_resolver_resolve(team_name.v)
        key == key_team_upcoming(id, limit)
        fetch == [io \in BOOLEAN |-> MongoDBClient_get_upcoming_fixtures(
                    client_db, io, matches, NoneId, id, limit, now)]
        call == ClientCall("get_upcoming_fixtures", NoneId, id, limit, "")
        target == Target("upcoming", "team", id, limit, "")
    IN  ServeFor(caller, "get_team_upcoming_matches", team_name, id,
              "InvalidTeamError", target,
              key, fetch, call, cache_ttl_upcoming_matches)

get_team_upcoming_matches(team_name, limit) ==
    get_team_upcoming_matches_from(Direct, team_name, limit)

get_league_upcoming_matches_from(caller, league_name, limit) ==
    LET id == league_resolver_resolve(league_name.v)
        key == key_league_upcoming(id, limit)
        fetch == [io \in BOOLEAN |-> MongoDBClient_get_upcoming_fixtures(
                    client_db, io, matches, id, NoneId, limit, now)]
        call == ClientCall("get_upcoming_fixtures", id, NoneId, limit, "")
        target == Target("upcoming", "league", id, limit, "")
    IN  ServeFor(caller, "get_league_upcoming_matches", league_name, id,
              "InvalidLeagueError", target, key, fetch, call,
              cache_ttl_upcoming_matches)

get_league_upcoming_matches(league_name, limit) ==
    get_league_upcoming_matches_from(Direct, league_name, limit)

get_team_match_results_upcoming_ttl(team_name, limit) ==
    LET id == team_resolver_resolve(team_name.v)
        key == key_team_past(id, limit)
        fetch == [io \in BOOLEAN |-> MongoDBClient_get_past_fixtures(
                    client_db, io, matches, NoneId, id, limit, now)]
        call == ClientCall("get_past_fixtures", NoneId, id, limit, "")
        target == Target("past", "team", id, limit, "")
    IN  Serve("get_team_match_results", team_name, id,
              "InvalidTeamError", target,
              key, fetch, call, cache_ttl_upcoming_matches)

get_team_match_results_from(caller, team_name, limit) ==
    LET id == team_resolver_resolve(team_name.v)
        key == key_team_past(id, limit)
        fetch == [io \in BOOLEAN |-> MongoDBClient_get_past_fixtures(
                    client_db, io, matches, NoneId, id, limit, now)]
        call == ClientCall("get_past_fixtures", NoneId, id, limit, "")
        target == Target("past", "team", id, limit, "")
    IN  ServeFor(caller, "get_team_match_results", team_name, id,
              "InvalidTeamError", target,
              key, fetch, call, cache_ttl_past_matches)

get_team_match_results(team_name, limit) ==
    get_team_match_results_from(Direct, team_name, limit)

get_league_match_results_team_error(league_name, limit) ==
    LET id == league_resolver_resolve(league_name.v)
        key == key_league_past(id, limit)
        fetch == [io \in BOOLEAN |-> MongoDBClient_get_past_fixtures(
                    client_db, io, matches, id, NoneId, limit, now)]
        call == ClientCall("get_past_fixtures", id, NoneId, limit, "")
        target == Target("past", "league", id, limit, "")
    IN  Serve("get_league_match_results", league_name, id,
              "InvalidTeamError", target,
              key, fetch, call, cache_ttl_past_matches)

get_league_match_results_from(caller, league_name, limit) ==
    LET id == league_resolver_resolve(league_name.v)
        key == key_league_past(id, limit)
        fetch == [io \in BOOLEAN |-> MongoDBClient_get_past_fixtures(
                    client_db, io, matches, id, NoneId, limit, now)]
        call == ClientCall("get_past_fixtures", id, NoneId, limit, "")
        target == Target("past", "league", id, limit, "")
    IN  ServeFor(caller, "get_league_match_results", league_name, id,
              "InvalidLeagueError", target,
              key, fetch, call, cache_ttl_past_matches)

get_league_match_results(league_name, limit) ==
    get_league_match_results_from(Direct, league_name, limit)

\* MongoDBClient.get_standings: `if season is None:` the calendar year
client_season(season, d) ==
    IF season.isNone THEN ToString(d.year) ELSE season.v

\* the season handed to the client as the caller gave it
get_standings_from_season_as_given(caller, league_name, season) ==
    LET id == league_resolver_resolve(league_name.v)
        used == IF season.isNone THEN _current_season(today) ELSE season.v
        key == key_standings(id, used)
        asked == client_season(season, today)
        fetch == [io \in BOOLEAN |-> MongoDBClient_get_standings(
                    client_db, io, standings, id, asked)]
        call == ClientCall("get_standings", id, NoneId, 0, asked)
        target == Target("standings", "league", id, 0, used)
    IN  ServeFor(caller, "get_standings", league_name, id,
              "InvalidLeagueError", target,
              key, fetch, call, cache_ttl_standings)

\* season: NoneV when the caller omits it; the client is handed the season
\* the key is built from
get_standings_from(caller, league_name, season) ==
    LET id == league_resolver_resolve(league_name.v)
        used == IF season.isNone THEN _current_season(today) ELSE season.v
        key == key_standings(id, used)
        asked == client_season(Some(used), today)
        fetch == [io \in BOOLEAN |-> MongoDBClient_get_standings(
                    client_db, io, standings, id, asked)]
        call == ClientCall("get_standings", id, NoneId, 0, asked)
        target == Target("standings", "league", id, 0, used)
    IN  ServeFor(caller, "get_standings", league_name, id,
              "InvalidLeagueError", target,
              key, fetch, call, cache_ttl_standings)

get_standings(league_name, season) ==
    get_standings_from(Direct, league_name, season)

\* the pool is closed and let go of, the database handle kept
MongoDBClient_close_keep_handle(p, db) ==
    IF p.client_pool # 0
    THEN [pool |-> [MongoConnectionPool_close(p, p.client_pool)
                       EXCEPT !.client_pool = 0],
          client_db |-> db]
    ELSE [pool |-> p, client_db |-> db]

MongoDBClient_close_drop_only(p, db) ==
    IF p.client_pool # 0
    THEN [pool |-> [p EXCEPT !.client_pool = 0], client_db |-> FALSE]
    ELSE [pool |-> p, client_db |-> db]

\* MongoDBClient.close(): closes the pool it holds and drops _pool and _db
MongoDBClient_close(p, db) ==
    IF p.client_pool # 0
    THEN [pool |-> [MongoConnectionPool_close(p, p.client_pool)
                       EXCEPT !.client_pool = 0],
          client_db |-> FALSE]
    ELSE [pool |-> p, client_db |-> db]

\* cleanup(): self.mongodb_client.close(), then the cache sweep
cleanup ==
    /\ LET c == MongoDBClient_close(pool, client_db)
       IN  /\ pool' = c.pool
           /\ client_db' = c.client_db
    /\ LET r == MemoryCache_cleanup_expired(cache, stats, now)
       IN  /\ cache' = r.cache
           /\ stats' = r.stats
    /\ last' = [NoObs EXCEPT !.op = "cleanup", !.at = now,
                             !.before = Some([pool |-> pool,
                                              cache |-> cache])]
    /\ UNCHANGED <<now, today, teams, leagues, matches, standings, loop>>

(***************************************************************************)
(* The service driven by its callers: Spec                                 *)
(***************************************************************************)
TeamsTable ==
    << [name |-> <<"A", "b">>, id |-> 1],
       [name |-> <<"b", "b">>, id |-> 2] >>

LeaguesTable ==
    << [name |-> <<"a", "b">>, id |-> 1, aliases |-> << <<"L", "b">> >>] >>

MatchDocs ==
    { [_id |-> "m1", home_team_id |-> 1, away_team_id |-> 2, league_id |-> 1,
       season |-> "2024", date |-> 1, status |-> "upcoming"],
      [_id |-> "m2", home_team_id |-> 2, away_team_id |-> 1, league_id |-> 1,
       season |-> "2024", date |-> 3, status |-> "upcoming"],
      [_id |-> "m3", home_team_id |-> 1, away_team_id |-> 2, league_id |-> 1,
       season |-> "2024", date |-> 0, status |-> "finished"],
      [_id |-> "m4", home_team_id |-> 2, away_team_id |-> 1, league_id |-> 1,
       season |-> "2024", date |-> 2, status |-> "finished"],
      \* a document without its season
      [_id |-> "m5", home_team_id |-> 2, away_team_id |-> 3, league_id |-> 2,
       date |-> 2, status |-> "upcoming"] }

StandingDocs ==
    { [_id |-> "s1", team_id |-> 1, league_id |-> 1, season |-> "2023",
       position |-> 1],
      [_id |-> "s2", team_id |-> 2, league_id |-> 1, season |-> "2023",
       position |-> 2],
      [_id |-> "s3", team_id |-> 2, league_id |-> 1, season |-> "2024",
       position |-> 1] }

Todays == {[year |-> 2024, month |-> 7]}

\* what callers pass
ServiceNames ==
    {NoneV, Some(<<>>), Some(<<"a", "b">>), Some(<<"b", "b">>),
     Some(<<"z">>)}
Limits == {1, 2}
Seasons == {NoneV, Some("2024")}

\* the configuration FootballInfoService.__init__ builds, and the pool as
\* MongoDBClient(mongo_config) leaves it when the connection succeeds
mongo_config == [uri |-> "u1", database_name |-> "d1"]
ServicePool ==
    LET made == MongoConnectionPool_new(NoPool, Some(mongo_config), TRUE,
                                        TRUE)
    IN  [made.pool EXCEPT !.client_pool = made.ret]

Init ==
    /\ now = 0
    /\ cache = EmptyCache
    /\ stats = ZeroStats
    /\ last = NoObs
    /\ today \in Todays
    /\ teams = TeamsTable
    /\ leagues = LeaguesTable
    /\ matches = MatchDocs
    /\ standings = StandingDocs
    /\ client_db = TRUE
    /\ pool = ServicePool
    /\ loop = IdleLoop

Next ==
    \/ Tick
    \/ \E name \in ServiceNames, limit \in Limits :
          get_team_upcoming_matches(name, limit)
    \/ \E name \in ServiceNames, limit \in Limits :
          get_league_upcoming_matches(name, limit)
    \/ \E name \in ServiceNames, limit \in Limits :
          get_team_match_results(name, limit)
    \/ \E name \in ServiceNames, limit \in Limits :
          get_league_match_results(name, limit)
    \/ \E name \in ServiceNames, season \in Seasons :
          get_standings(name, season)

Spec == Init /\ [][Next]_vars

(***************************************************************************)
(* The service with its shutdown hook: SpecCleanup                         *)
(***************************************************************************)
CleanupNames == {Some(<<"a", "b">>)}

NextCleanup ==
    \/ Tick
    \/ \E name \in CleanupNames : get_team_upcoming_matches(name, 1)
    \/ \E name \in CleanupNames : get_league_match_results(name, 1)
    \/ \E name \in CleanupNames : get_standings(name, Some("2024"))
    \/ cleanup

SpecCleanup == Init /\ [][NextCleanup]_vars

(***************************************************************************)
(* LeagueResolver.resolve applied to the tables _load_leagues can build:   *)
(* SpecLeague.  leagues.json is an object, so the canonical names of a     *)
(* table are distinct; the id of a league goes with its name.              *)
(***************************************************************************)
LeagueNames == {<<"a">>, <<"a", "b">>, <<"B">>}
LeagueAliases ==
    {<<>>, << <<"a">> >>, << <<"A", "b">> >>, << <<"b">>, <<"a", "B">> >>}
LeagueId(name) ==
    IF name = <<"a">> THEN 1 ELSE IF name = <<"a", "b">> THEN 2 ELSE 3
LeagueEntries ==
    {[name |-> n, id |-> LeagueId(n), aliases |-> a] :
        n \in LeagueNames, a \in LeagueAliases}
LeagueTables ==
    UNION {{t \in [1..n -> LeagueEntries] :
               \A i \in 1..n, j \in 1..n : i # j => t[i].name # t[j].name} :
           n \in 0..MaxLeagues}
LeagueQueries ==
    {<<"a">>, <<"A", " ">>, <<"b">>, <<" ", "a", "b">>, <<"z">>, <<" ">>}

LeagueResolve(query) ==
    /\ last.op = "init"
    /\ last' = [NoObs EXCEPT !.op = "resolve", !.name = Some(query),
                             !.target.id = league_resolver_resolve(query)]
    /\ UNCHANGED <<now, cache, stats, svc>>

InitLeague ==
    /\ now = 0
    /\ cache = EmptyCache
    /\ stats = ZeroStats
    /\ last = NoObs
    /\ today = [year |-> 2024, month |-> 8]
    /\ teams = <<>>
    /\ leagues \in LeagueTables
    /\ matches = {}
    /\ standings = {}
    /\ client_db = FALSE
    /\ pool = NoPool
    /\ loop = IdleLoop

NextLeague == \E query \in LeagueQueries : LeagueResolve(query)

SpecLeague == InitLeague /\ [][NextLeague]_vars

(***************************************************************************)
(* Coroutines on the asyncio event loop: SpecLoop.  A task is a call that  *)
(* was scheduled (asyncio.gather / create_task); the loop takes the head   *)
(* of its ready queue and runs it until it suspends or returns.  A task is *)
(* modelled statement by statement, pc naming the next one.  The service   *)
(* awaits only MemoryCache and MongoDBClient coroutines; MemoryCache.get   *)
(* and .set contain no await and the client calls pymongo synchronously,   *)
(* so no statement of any of them hands control back to the loop.          *)
(***************************************************************************)
LoopNames == {Some(<<"a", "b">>)}
LoopKeys == {"k1"}
LoopTtls == {0, 1}
LoopValues == {<<7>>}

NewTask(id, fn, name, limit, key, value, ttl) ==
    [id |-> id, fn |-> fn, pc |-> "start",
     name |-> name, limit |-> limit, key |-> key, value |-> value,
     ttl |-> ttl,
     \* the tasks already scheduled and not yet finished when this one was
     peers |-> {t.id : t \in {loop.ready[i] : i \in 1..Len(loop.ready)}},
     \* whether the key was absent from the cache at that moment
     cold |-> key \notin DOMAIN cache,
     \* locals: entry / cached_data, team_id, matches
     entry |-> NoneV, team_id |-> NoneId, found |-> <<>>,
     \* what the call did and how it ended
     at |-> 0, before |-> NoneV, fetched |-> FALSE, wrote |-> FALSE,
     removed |-> NoneV, ret |-> NoneV, outcome |-> ""]

Spawn(t) ==
    /\ loop.cur = <<>>
    /\ loop.spawned < MaxTasks
    /\ loop' = [loop EXCEPT !.ready = Append(@, t), !.spawned = @ + 1]
    /\ last' = [NoObs EXCEPT !.op = "spawn", !.key = t.key]
    /\ UNCHANGED <<now, cache, stats, today, teams, leagues, matches,
                   standings, client_db, pool>>

SpawnService(name, limit) ==
    Spawn(NewTask(loop.spawned + 1, "get_team_upcoming_matches", name, limit,
                  key_team_upcoming(team_resolver_resolve(name.v), limit),
                  <<>>, 0))

SpawnGet(key) ==
    Spawn(NewTask(loop.spawned + 1, "get", NoneV, 0, key, <<>>, 0))

SpawnSet(key, value, ttl) ==
    Spawn(NewTask(loop.spawned + 1, "set", NoneV, 0, key, value, ttl))

suspends_at_await(fn, pc) == fn = "get_team_upcoming_matches"

suspends_always(fn, pc) == TRUE

\* whether the statement a task has just run handed control to the loop
suspends(fn, pc) == FALSE

Returns(t, ret) == [t EXCEPT !.pc = "done", !.ret = ret, !.outcome = "return"]
Raises(t, exc) == [t EXCEPT !.pc = "done", !.outcome = exc]

\* the loop after the running task has become t2; rest is the ready queue
\* without it
Resume(t, t2, rest) ==
    /\ loop' = IF t2.pc = "done"
               THEN [loop EXCEPT !.ready = rest, !.cur = <<>>,
                                 !.done = Append(@, t2)]
               ELSE IF suspends(t.fn, t.pc)
               THEN [loop EXCEPT !.ready = Append(rest, t2), !.cur = <<>>]
               ELSE [loop EXCEPT !.ready = rest, !.cur = <<t2>>]
    /\ last' = IF t2.pc = "done"
               THEN [NoObs EXCEPT !.op = t2.fn, !.key = t2.key,
                                  !.ret = t2.ret,
                                  !.outcome = t2.outcome]
               ELSE [NoObs EXCEPT !.op = "step", !.key = t2.key]

\* MemoryCache.get, statement by statement
StepGet(t, rest) ==
    /\ UNCHANGED now
    /\ IF t.pc = "start"
       THEN \* entry = self._cache.get(key); if entry is None: ...
            IF t.key \notin DOMAIN cache
            THEN /\ stats' = Bump(stats, "misses")
                 /\ UNCHANGED cache
                 /\ Resume(t, Returns(t, NoneV), rest)
            ELSE /\ UNCHANGED <<cache, stats>>
                 /\ Resume(t, [t EXCEPT !.pc = "check",
                                        !.entry = Some(cache[t.key])], rest)
       ELSE IF t.pc = "check"
       THEN \* if entry.is_expired(): ... else hit
            IF is_expired(t.entry.v, now)
            THEN /\ UNCHANGED <<cache, stats>>
                 /\ Resume(t, [t EXCEPT !.pc = "evict", !.at = now], rest)
            ELSE /\ stats' = Bump(stats, "hits")
                 /\ UNCHANGED cache
                 /\ Resume(t, Returns([t EXCEPT !.at = now],
                                      Some(t.entry.v.data)), rest)
       ELSE \* del self._cache[key], then the counters
            IF t.key \notin DOMAIN cache
            THEN /\ UNCHANGED <<cache, stats>>
                 /\ Resume(t, Raises(t, "KeyError"), rest)
            ELSE /\ cache' = Without(cache, {t.key})
                 /\ stats' = Bump(Bump(stats, "misses"), "evictions")
                 /\ Resume(t, Returns([t EXCEPT
                                         !.removed = Some(cache[t.key])],
                                      NoneV), rest)

\* MemoryCache.set, statement by statement
StepSet(t, rest) ==
    /\ UNCHANGED <<now, stats>>
    /\ IF t.pc = "start"
       THEN \* entry = CacheEntry(data=value, cached_at=datetime.now(), ...)
            /\ UNCHANGED cache
            /\ Resume(t, [t EXCEPT !.pc = "store",
                             !.entry = Some(CacheEntry(t.value, now, t.ttl))],
                      rest)
       ELSE \* self._cache[key] = entry
            /\ cache' = [k \in (DOMAIN cache) \cup {t.key} |->
                            IF k = t.key THEN t.entry.v ELSE cache[k]]
            /\ Resume(t, Returns([t EXCEPT !.wrote = TRUE], NoneV), rest)

\* FootballInfoService.get_team_upcoming_matches, await by await
StepService(t, rest) ==
    /\ UNCHANGED now
    /\ IF t.pc = "start"
       THEN \* up to cached_data = await self.memory_cache.get(cache_key)
            IF no_name(t.name)
            THEN /\ UNCHANGED <<cache, stats>>
                 /\ Resume(t, Returns(t, Some(<<>>)), rest)
            ELSE
            \E id \in {team_resolver_resolve(t.name.v)} :
            IF id = NoneId
            THEN /\ UNCHANGED <<cache, stats>>
                 /\ Resume(t, Raises(t, "InvalidTeamError"), rest)
            ELSE
            \E got \in {MemoryCache_get(cache, stats,
                                        key_team_upcoming(id, t.limit),
                                        now)} :
            \E seen \in {[t EXCEPT !.team_id = id, !.at = now,
                             !.before = IF t.key \in DOMAIN cache
                                        THEN Some(cache[t.key]) ELSE NoneV]} :
                /\ cache' = got.cache
                /\ stats' = got.stats
                /\ IF is_hit(got.ret)
                   THEN Resume(t, Returns(seen, got.ret), rest)
                   ELSE Resume(t, [seen EXCEPT !.pc = "fetch"], rest)
       ELSE IF t.pc = "fetch"
       THEN \* matches = await self.mongodb_client.get_upcoming_fixtures(...)
            /\ UNCHANGED <<cache, stats>>
            /\ \E io_ok \in BOOLEAN :
               \E out \in MongoDBClient_get_upcoming_fixtures(
                             client_db, io_ok, matches, NoneId, t.team_id,
                             t.limit, now) :
                  IF out.exc # ""
                  THEN Resume(t, Raises([t EXCEPT !.fetched = TRUE], out.exc),
                              rest)
                  ELSE Resume(t, [t EXCEPT !.pc = "set", !.fetched = TRUE,
                                           !.found = out.value], rest)
       ELSE \* result = [...]; await self.memory_cache.set(...); return
            \E result \in {model_dumps(t.found)} :
                /\ cache' = MemoryCache_set(cache, t.key, result,
                                            cache_ttl_upcoming_matches, now)
                /\ UNCHANGED stats
                /\ Resume(t, Returns([t EXCEPT !.wrote = TRUE], Some(result)),
                          rest)

\* the loop runs the next statement of the task it is running, or of the
\* head of the ready queue when it is running none
Run ==
    /\ loop.cur # <<>> \/ loop.ready # <<>>
    /\ LET t == IF loop.cur # <<>> THEN loop.cur[1] ELSE Head(loop.ready)
           rest == IF loop.cur # <<>> THEN loop.ready ELSE Tail(loop.ready)
       IN  IF t.fn = "get" THEN StepGet(t, rest)
           ELSE IF t.fn = "set" THEN StepSet(t, rest)
           ELSE StepService(t, rest)
    /\ UNCHANGED <<today, teams, leagues, matches, standings, client_db, pool>>

NextLoop ==
    \/ Tick
    \/ \E name \in LoopNames : SpawnService(name, 1)
    \/ \E key \in LoopKeys : SpawnGet(key)
    \/ \E key \in LoopKeys, value \in LoopValues, ttl \in LoopTtls :
          SpawnSet(key, value, ttl)
    \/ Run

SpecLoop == Init /\ [][NextLoop]_vars

(***************************************************************************)
(* MongoConnectionPool driven directly: SpecPool.  Constructions, closes   *)
(* and get_database calls are plain synchronous calls, so each is one      *)
(* step.                                                                   *)
(***************************************************************************)
PoolConfigs ==
    {[uri |-> "u1", database_name |-> "d1"],
     [uri |-> "u2", database_name |-> "d2"]}

\* MongoConnectionPool(config), config NoneV when the argument is omitted
PoolNew(config) ==
    /\ pool.slot = 0 => Len(pool.objs) < MaxPools
    /\ \E open_ok \in BOOLEAN, ping_ok \in BOOLEAN :
       \E r \in {MongoConnectionPool_new(pool, config, open_ok, ping_ok)} :
          /\ pool' = r.pool
          /\ last' = [NoObs EXCEPT
                        !.op = "new", !.name = config,
                        !.ret = IF r.exc = "" THEN Some(r.ret) ELSE NoneV,
                        !.outcome = IF r.exc = "" THEN "return" ELSE r.exc,
                        !.carried = <<r.original_error>>,
                        !.client = r.steps,
                        !.before = Some(pool)]
    /\ UNCHANGED <<now, cache, stats, today, teams, leagues, matches,
                   standings, client_db, loop>>

PoolGetDatabase(id) ==
    /\ id \in pool.held
    /\ LET r == MongoConnectionPool_get_database(pool, id)
       IN  last' = [NoObs EXCEPT
                      !.op = "get_database", !.target.id = id,
                      !.ret = r.ret,
                      !.outcome = IF r.exc = "" THEN "return" ELSE r.exc,
                      !.before = Some(pool)]
    /\ UNCHANGED <<now, cache, stats, today, teams, leagues, matches,
                   standings, client_db, pool, loop>>

PoolClose(id) ==
    /\ id \in pool.held
    /\ pool' = MongoConnectionPool_close(pool, id)
    /\ last' = [NoObs EXCEPT !.op = "close", !.target.id = id,
                             !.before = Some(pool)]
    /\ UNCHANGED <<now, cache, stats, today, teams, leagues, matches,
                   standings, client_db, loop>>

NextPool ==
    \/ \E config \in {NoneV} \cup {Some(c) : c \in PoolConfigs} :
          PoolNew(config)
    \/ \E id \in 1..MaxPools : PoolGetDatabase(id)
    \/ \E id \in 1..MaxPools : PoolClose(id)

SpecPool == InitCache /\ [][NextPool]_vars

(***************************************************************************)
(* Claims about MemoryCache, checked under SpecCache                       *)
(***************************************************************************)
\* age of an entry and the expiry predicate as the data model states it:
\* expired = (now - created) > ttl
Age(e, t) == t - e.cached_at
Stale(e, t) == Age(e, t) > e.ttl

\* C7: set(key, v, ttl) followed by get(key) while (now - created) <= ttl
\* returns v; the first get(key) made when (now - created) > ttl returns a
\* miss and removes the entry, so the key no longer counts in the size that
\* get_stats reports.
C7_TtlExpiry ==
    [][ /\ (last'.op = "get" /\ last'.key \in DOMAIN cache) =>
            LET k == last'.key
                e == cache[k]
            IN  IF Age(e, now) <= e.ttl
                THEN /\ last'.ret = Some(e.data)
                     /\ k \in DOMAIN cache'
                ELSE /\ last'.ret = NoneV
                     /\ k \notin DOMAIN cache'
                     /\ MemoryCache_get_stats(cache', stats').size
                          = MemoryCache_get_stats(cache, stats).size - 1
        /\ (last.op = "set" /\ last'.op = "get" /\ last'.key = last.key
              /\ 0 <= last.ttl) =>
            last'.ret = Some(last.value)
      ]_vars

\* a get has just found an expired entry and removed it, after an earlier hit
C7_Witness ==
    /\ last.op = "get"
    /\ last.ret = NoneV
    /\ stats = [hits |-> 1, misses |-> 1, evictions |-> 1]
    /\ last.key \notin DOMAIN cache
    /\ now >= 2

\* C8: set(key, value, ttl) always replaces whatever entry exists for key
\* (fresh or expired) with a new entry whose payload is value, whose ttl is
\* ttl and whose creation timestamp is the time of the set; no other key's
\* entry is changed.
C8_SetOverwrites ==
    [][ last'.op = "set" =>
            LET k == last'.key
            IN  /\ DOMAIN cache' = (DOMAIN cache) \cup {k}
                /\ cache'[k].data = last'.value
                /\ cache'[k].ttl = last'.ttl
                /\ cache'[k].cached_at = now'
                /\ \A o \in (DOMAIN cache) \ {k} : cache'[o] = cache[o]
      ]_vars

\* a set at a late time, beside an older entry under the other key
C8_Witness ==
    /\ last.op = "set"
    /\ now >= 2
    /\ cache[last.key] = CacheEntry(last.value, now, last.ttl)
    /\ \E o \in DOMAIN cache : o # last.key /\ cache[o].cached_at < now

\* C9: a cache entry's payload, creation timestamp and ttl never change
\* between the set that created it and its replacement or removal; a get
\* that hits does not refresh the creation timestamp.
C9_EntryImmutable ==
    [][ \A k \in (DOMAIN cache) \cap (DOMAIN cache') :
            cache'[k] # cache[k] => (last'.op = "set" /\ last'.key = k)
      ]_vars

\* a get has hit an entry that was created at an earlier time
C9_Witness ==
    /\ last.op = "get"
    /\ ~last.ret.isNone
    /\ last.key \in DOMAIN cache
    /\ cache[last.key].cached_at < now
    /\ stats.hits = 2

\* C10: cleanup_expired() removes exactly the entries that are expired at
\* the time of the call, returns their number, and leaves every non-expired
\* entry unchanged; immediately afterwards the cache holds no expired entry.
C10_CleanupExpired ==
    [][ last'.op = "cleanup_expired" =>
            LET gone == {k \in DOMAIN cache : Stale(cache[k], now)}
            IN  /\ DOMAIN cache' = (DOMAIN cache) \ gone
                /\ last'.ret = Some(Cardinality(gone))
                /\ \A k \in DOMAIN cache' : cache'[k] = cache[k]
                /\ \A k \in DOMAIN cache' : ~Stale(cache'[k], now')
      ]_vars

\* a sweep has removed two expired entries
C10_Witness ==
    /\ last.op = "cleanup_expired"
    /\ last.ret = Some(2)
    /\ stats.evictions = 2
    /\ cache = EmptyCache

\* a sweep has removed one expired entry and kept a fresh one
C10_WitnessKept ==
    /\ last.op = "cleanup_expired"
    /\ last.ret = Some(1)
    /\ Cardinality(DOMAIN cache) = 1

(***************************************************************************)
(* Claims about get_stats, checked under SpecStats                         *)
(***************************************************************************)
StatsSeen == last.ret.v

\* C11 as stated: get_stats() reports total_requests = hits + misses and
\* hit_rate exactly hits / total_requests, 0.0 when total_requests is 0.
C11_HitRateExact ==
    last.op = "get_stats" =>
        /\ StatsSeen.total_requests = stats.hits + stats.misses
        /\ stats.hits + stats.misses = 0 => StatsSeen.hit_rate = 0
        /\ stats.hits + stats.misses > 0 =>
              StatsSeen.hit_rate * (stats.hits + stats.misses)
                  = 100 * stats.hits

\* C11, amended: get_stats() reports total_requests = hits + misses and
\* hit_rate = hits / total_requests rounded to two decimals (the nearest
\* hundredth, an exact tie going to the even one), 0.0 when total_requests
\* is 0.
C11_HitRateRounded ==
    last.op = "get_stats" =>
        LET total == stats.hits + stats.misses
            off == Abs(100 * stats.hits - StatsSeen.hit_rate * total)
        IN  /\ StatsSeen.total_requests = total
            /\ total = 0 => StatsSeen.hit_rate = 0
            /\ total > 0 =>
                  /\ 2 * off <= total
                  /\ 2 * off = total => StatsSeen.hit_rate % 2 = 0

\* one hit in three requests is reported as 0.33
C11_Witness ==
    /\ last.op = "get_stats"
    /\ stats.hits = 1
    /\ stats.misses = 2
    /\ StatsSeen.hit_rate = 33
    /\ StatsSeen.total_requests = 3

\* no request at all is reported as 0.0
C11_WitnessZero ==
    /\ last.op = "get_stats"
    /\ stats.hits + stats.misses = 0
    /\ StatsSeen.hit_rate = 0

(***************************************************************************)
(* Claims about concurrent calls, checked under SpecLoop                   *)
(***************************************************************************)
\* a and b were both scheduled before either had finished
Concurrent(a, b) == a.id \in b.peers \/ b.id \in a.peers

\* the pairs <<i, j>> of finished service calls, i finishing first, that
\* ran concurrently for one key which was cold when they were scheduled
ColdPairs ==
    {p \in (1..Len(loop.done)) \X (1..Len(loop.done)) :
        /\ p[1] < p[2]
        /\ loop.done[p[1]].fn = "get_team_upcoming_matches"
        /\ loop.done[p[2]].fn = "get_team_upcoming_matches"
        /\ loop.done[p[1]].key = loop.done[p[2]].key
        /\ Concurrent(loop.done[p[1]], loop.done[p[2]])
        /\ loop.done[p[1]].cold /\ loop.done[p[2]].cold}

C12_WitnessExpired ==
    \E p \in ColdPairs :
        /\ loop.done[p[1]].wrote
        /\ loop.done[p[2]].fetched /\ loop.done[p[2]].wrote

\* the finished tasks that ran MemoryCache.get / MemoryCache.set
DoneGets == {i \in 1..Len(loop.done) : loop.done[i].fn = "get"}
DoneSets == {i \in 1..Len(loop.done) : loop.done[i].fn = "set"}

\* C13: under concurrent get and set calls on one key, a get returns either
\* the data of the entry as last completely set or nothing; it never fails
\* because another call removed the key; and the entry a get removes is the
\* expired one it examined, never one a concurrent set has just written.
C13_GetSetAtomic ==
    /\ \A i \in DoneGets :
          LET g == loop.done[i]
          IN  /\ g.outcome = "return"
              /\ ~g.removed.isNone =>
                    /\ g.removed = g.entry
                    /\ Stale(g.removed.v, g.at)
    /\ last.op = "get" =>
          IF last.ret.isNone
          THEN last.key \notin DOMAIN cache
          ELSE /\ last.key \in DOMAIN cache
               /\ cache[last.key].data = last.ret.v
               /\ ~Stale(cache[last.key], now)
               /\ \E j \in DoneSets :
                     /\ loop.done[j].wrote
                     /\ loop.done[j].entry = Some(cache[last.key])

\* a get and a set on one key were scheduled together while an expired
\* entry was stored; the set ran first and the get returned the new entry
C13_Witness ==
    \E i \in DoneGets, j \in DoneSets :
        /\ Concurrent(loop.done[i], loop.done[j])
        /\ loop.done[i].key = loop.done[j].key
        /\ ~loop.done[i].cold
        /\ j < i
        /\ loop.done[i].ret = Some(loop.done[j].value)
        /\ last.op = "get"

\* a get scheduled together with a set has removed the expired entry
C13_WitnessEvict ==
    \E i \in DoneGets, j \in DoneSets :
        /\ Concurrent(loop.done[i], loop.done[j])
        /\ loop.done[i].key = loop.done[j].key
        /\ ~loop.done[i].removed.isNone

(***************************************************************************)
(* Claims about MongoConnectionPool, checked under SpecPool.  last.before  *)
(* is the pool as the call found it.                                       *)
(***************************************************************************)
PoolBefore == last.before.v

\* instance i of pool p has been made and close() was never called on it
Live(p, i) == i \in 1..Len(p.objs) /\ ~p.objs[i].closed

Initialized(p, i) == ~p.objs[i]._client.isNone /\ ~p.objs[i]._db.isNone

\* C14: while a pool instance exists (constructed and not closed), every
\* further construction returns that same instance and performs no new
\* connection, probe or database selection, whatever configuration is
\* passed.
C14_SingletonReused ==
    last.op = "new" =>
        \A i \in 1..Len(PoolBefore.objs) :
            Live(PoolBefore, i) =>
                /\ last.outcome = "return"
                /\ last.ret = Some(i)
                /\ last.client = <<>>
                /\ pool.objs = PoolBefore.objs
                /\ pool.slot = PoolBefore.slot

\* a construction with the second configuration has returned the instance
\* that was initialized with the first one, untouched
C14_Witness ==
    /\ last.op = "new"
    /\ last.name = Some([uri |-> "u2", database_name |-> "d2"])
    /\ Live(PoolBefore, 1) /\ Initialized(PoolBefore, 1)
    /\ last.ret = Some(1)
    /\ pool.objs[1]._db = Some("d1")

\* C15 as stated: any construction with a non-null configuration that
\* returns normally yields an instance on which get_database() succeeds,
\* after any prior sequence of constructions and closes.
C15_ConfiguredConstructionUsable ==
    (last.op = "new" /\ ~last.name.isNone /\ last.outcome = "return") =>
        MongoConnectionPool_get_database(pool, last.ret.v).exc = ""

\* C16: after close() on an initialized pool the client and the database
\* handle are released and the singleton slot is empty, so the next
\* construction with a configuration creates a new instance and initializes
\* it from scratch with that configuration.
C16_CloseThenFresh ==
    [][ /\ (last'.op = "close" /\ Initialized(pool, last'.target.id)) =>
              /\ pool'.objs[last'.target.id]._client.isNone
              /\ pool'.objs[last'.target.id]._db.isNone
              /\ pool'.slot = 0
        /\ (/\ last.op = "close"
            /\ Initialized(PoolBefore, last.target.id)
            /\ last'.op = "new" /\ ~last'.name.isNone) =>
              /\ Len(pool'.objs) = Len(pool.objs) + 1
              /\ pool'.slot = Len(pool'.objs)
              /\ last'.client # <<>> /\ last'.client[1] = "open"
              /\ last'.outcome = "return" =>
                    /\ last'.ret = Some(pool'.slot)
                    /\ last'.client = <<"open", "ping", "select">>
                    /\ pool'.objs[pool'.slot]._client = last'.name
                    /\ pool'.objs[pool'.slot]._db
                          = Some(last'.name.v.database_name)
      ]_vars

\* the first pool was closed and the next construction, given the second
\* configuration, has made and initialized a second instance
C16_Witness ==
    /\ last.op = "new"
    /\ last.ret = Some(2)
    /\ PoolBefore.slot = 0
    /\ pool.objs[1].closed /\ pool.objs[1]._client.isNone
    /\ pool.objs[2]._db = Some("d2")

\* C17: if opening the connection or the liveness probe fails during pool
\* construction, construction raises MongoDBConnectionError whose
\* original_error is the triggering exception, after exactly one connection
\* attempt.
C17_InitFailureRaises ==
    (/\ last.op = "new"
     /\ last.client # <<>>
     /\ last.client[Len(last.client)] # "select") =>
        /\ last.outcome = "MongoDBConnectionError"
        /\ last.ret.isNone
        /\ Cardinality({k \in 1..Len(last.client) :
                           last.client[k] = "open"}) = 1
        /\ Cardinality({k \in 1..Len(last.client) :
                           last.client[k] = "ping"}) <= 1
        /\ last.carried =
              IF last.client[Len(last.client)] = "open"
              THEN <<"ConfigurationError">>
              ELSE <<"ServerSelectionTimeoutError">>

\* a construction whose probe failed has raised
C17_Witness ==
    /\ last.op = "new"
    /\ last.client = <<"open", "ping">>
    /\ last.outcome = "MongoDBConnectionError"
    /\ last.carried = <<"ServerSelectionTimeoutError">>

\* a construction whose connection could not be opened has raised
C17_WitnessOpen ==
    /\ last.op = "new"
    /\ last.client = <<"open">>
    /\ last.outcome = "MongoDBConnectionError"

\* C18 as stated: at most one initialization runs per live singleton, all
\* constructors obtain the same instance, and no caller ever obtains an
\* instance whose database handle is unset.
C18_ExclusiveInitialization ==
    /\ Cardinality({i \in 1..Len(pool.objs) :
                       ~pool.objs[i]._client.isNone}) <= 1
    /\ \A i \in 1..Len(pool.objs) :
          ~pool.objs[i]._client.isNone => pool.slot = i
    /\ (last.op = "new" /\ last.outcome = "return") =>
          /\ last.ret = Some(pool.slot)
          /\ ~pool.objs[last.ret.v]._db.isNone

(***************************************************************************)
(* Claims about the shutdown hook, checked under SpecCleanup               *)
(***************************************************************************)
\* C19: cleanup() closes the connection pool, which clears the singleton
\* slot, and removes every expired cache entry, leaving the non-expired
\* entries in place.
C19_CleanupClosesAndSweeps ==
    last.op = "cleanup" =>
        LET was == last.before.v
            gone == {k \in DOMAIN was.cache : Stale(was.cache[k], last.at)}
        IN  /\ pool.slot = 0
            /\ pool.client_pool = 0
            /\ ~client_db
            /\ \A i \in 1..Len(pool.objs) :
                  pool.objs[i]._client.isNone /\ pool.objs[i]._db.isNone
            /\ DOMAIN cache = (DOMAIN was.cache) \ gone
            /\ \A k \in DOMAIN cache : cache[k] = was.cache[k]

\* cleanup has closed the open pool, removed one expired entry and kept a
\* fresh one
C19_Witness ==
    /\ last.op = "cleanup"
    /\ last.before.v.pool.slot = 1
    /\ Initialized(last.before.v.pool, 1)
    /\ pool.objs[1].closed
    /\ Cardinality(DOMAIN last.before.v.cache) = 2
    /\ Cardinality(DOMAIN cache) = 1

(***************************************************************************)
(* Claims about LeagueResolver, checked under SpecLeague                   *)
(***************************************************************************)
\* the positions of the table that match the query in each phase
ByName(q) == {i \in 1..Len(leagues) : lower(leagues[i].name) = q}
ByAlias(q) ==
    {i \in 1..Len(leagues) :
        \E k \in 1..Len(leagues[i].aliases) : lower(leagues[i].aliases[k]) = q}
ByAliasPart(q) ==
    {i \in 1..Len(leagues) :
        \E k \in 1..Len(leagues[i].aliases) :
            contains(lower(leagues[i].aliases[k]), q)}

\* C20: LeagueResolver.resolve applies three phases in strict priority over
\* the whole table -- case-insensitive trimmed exact canonical-name match,
\* then case-insensitive exact alias match, then query-is-substring-of-an-
\* alias; a match in an earlier phase wins over any match in a later phase
\* even on an entry that comes earlier in load order, and within a phase
\* the first entry in load order wins.
C20_LeaguePhases ==
    last.op = "resolve" =>
        LET q == strip(lower(last.name.v))
            phase == IF ByName(q) # {} THEN ByName(q)
                     ELSE IF ByAlias(q) # {} THEN ByAlias(q)
                     ELSE ByAliasPart(q)
        IN  IF phase = {}
            THEN last.target.id = NoneId
            ELSE \E i \in phase :
                    /\ \A j \in phase : i <= j
                    /\ last.target.id = leagues[i].id

\* the first league has an alias that contains the query, the second has an
\* alias equal to it: the second league is returned
C20_Witness ==
    /\ last.op = "resolve"
    /\ last.name = Some(<<"A", " ">>)
    /\ Len(leagues) = 2
    /\ ByName(<<"a">>) = {}
    /\ 1 \in ByAliasPart(<<"a">>) /\ 1 \notin ByAlias(<<"a">>)
    /\ 2 \in ByAlias(<<"a">>)
    /\ last.target.id = leagues[2].id
    /\ leagues[1].id # leagues[2].id

\* the first league has an alias equal to the query, the second has it as
\* its canonical name: the second league is returned
C20_WitnessName ==
    /\ last.op = "resolve"
    /\ Len(leagues) = 2
    /\ 1 \in ByAlias(strip(lower(last.name.v)))
    /\ ByName(strip(lower(last.name.v))) = {2}
    /\ last.target.id = leagues[2].id

(***************************************************************************)
(* Claims about FootballInfoService, checked under Spec                    *)
(***************************************************************************)
TeamOps == {"get_team_upcoming_matches", "get_team_match_results"}
LeagueOps == {"get_league_upcoming_matches", "get_league_match_results",
              "get_standings"}
ServiceOps == TeamOps \cup LeagueOps

\* the call reached the cache and found a non-expired entry under its key
FoundFresh ==
    /\ last.op \in ServiceOps
    /\ last.key # ""
    /\ ~last.before.isNone
    /\ ~Stale(last.before.v, last.at)

\* the call reached the cache and missed: key absent, or entry expired
Missed ==
    /\ last.op \in ServiceOps
    /\ last.key # ""
    /\ (last.before.isNone \/ Stale(last.before.v, last.at))

\* the TTL configured for a category
TtlOf(kind) ==
    CASE kind = "upcoming" -> cache_ttl_upcoming_matches
      [] kind = "past" -> cache_ttl_past_matches
      [] kind = "standings" -> cache_ttl_standings

\* the DataClient call that matches what a service call asks for
MatchingCall(t) ==
    [fn |-> CASE t.kind = "upcoming" -> "get_upcoming_fixtures"
              [] t.kind = "past" -> "get_past_fixtures"
              [] t.kind = "standings" -> "get_standings",
     league_id |-> IF t.scope = "league" THEN t.id ELSE NoneId,
     team_id |-> IF t.scope = "team" THEN t.id ELSE NoneId,
     limit |-> t.limit, season |-> t.season]

\* what the matching DataClient call can return, started at time t0
ClientResults(c, t0) ==
    LET outs == UNION {
            CASE c.fn = "get_upcoming_fixtures" ->
                    MongoDBClient_get_upcoming_fixtures(client_db, io,
                        matches, c.league_id, c.team_id, c.limit, t0)
              [] c.fn = "get_past_fixtures" ->
                    MongoDBClient_get_past_fixtures(client_db, io,
                        matches, c.league_id, c.team_id, c.limit, t0)
              [] c.fn = "get_standings" ->
                    MongoDBClient_get_standings(client_db, io, standings,
                        c.league_id, c.season) : io \in BOOLEAN}
    IN  {model_dumps(o.value) : o \in {x \in outs : x.exc = ""}}

\* C1: for each of the five operations, if the cache holds a non-expired
\* entry under the operation's key at the time of the call, the operation
\* returns exactly the stored list and makes no DataClient call and no cache
\* write.
C1_CacheHit ==
    FoundFresh =>
        /\ last.outcome = "return"
        /\ last.ret = Some(last.before.v.data)
        /\ last.client = <<>>
        /\ last.writes = <<>>
        /\ last.key \in DOMAIN cache
        /\ cache[last.key] = last.before.v

\* a results call was served from an entry stored at an earlier time
C1_Witness ==
    /\ FoundFresh
    /\ last.op = "get_league_match_results"
    /\ last.before.v.cached_at < last.at
    /\ last.ret.v # <<>>

\* C2: on a cache miss whose DataClient call succeeds, the operation calls
\* the DataClient operation matching its kind exactly once, stores the
\* converted result under its key with the TTL of its category, and returns
\* that same result; afterwards the entry for the key holds exactly the
\* returned list.
C2_MissFetchStore ==
    (Missed /\ last.outcome = "return") =>
        /\ last.client = <<MatchingCall(last.target)>>
        /\ ~last.ret.isNone
        /\ last.ret.v \in ClientResults(last.client[1], last.at)
        /\ last.writes = <<[key |-> last.key, ttl |-> TtlOf(last.target.kind)]>>
        /\ last.key \in DOMAIN cache
        /\ cache[last.key] =
              CacheEntry(last.ret.v, now, TtlOf(last.target.kind))

\* a standings call found its entry expired, fetched and stored a new list
C2_Witness ==
    /\ Missed
    /\ last.op = "get_standings"
    /\ ~last.before.isNone
    /\ last.outcome = "return"
    /\ Len(last.ret.v) = 2
    /\ cache[last.key].cached_at > last.before.v.cached_at

\* C3: when an operation misses the cache (key absent or entry expired) and
\* the DataClient call fails, the failure propagates to the caller, the
\* DataClient is not called a second time, no expired data is returned, and
\* the cache holds no entry for that key afterwards.
C3_MissFetchFails ==
    (Missed /\ last.outcome # "return") =>
        /\ last.outcome \in {"MongoDBQueryError", "MongoDBConnectionError",
                             "UnboundLocalError"}
        /\ last.client = <<MatchingCall(last.target)>>
        /\ last.ret = NoneV
        /\ last.writes = <<>>
        /\ last.key \notin DOMAIN cache

\* the entry under the key had expired and the refresh failed
C3_Witness ==
    /\ Missed
    /\ ~last.before.isNone
    /\ last.before.v.data # <<>>
    /\ last.outcome = "MongoDBQueryError"
    /\ stats.evictions = 1

\* C4: for every non-empty name that the relevant resolver cannot resolve, a
\* team-scoped operation raises InvalidTeamError and a league-scoped one
\* (standings included) raises InvalidLeagueError, each carrying the
\* offending input; such a call never returns an empty list.
C4_UnresolvedRaises ==
    (last.op \in ServiceOps /\ ~last.name.isNone /\ last.name.v # <<>>) =>
        /\ (last.op \in TeamOps
              /\ TeamResolver_resolve(teams, last.name.v) = NoneId) =>
                /\ last.outcome = "InvalidTeamError"
                /\ last.carried = last.name.v
                /\ last.ret = NoneV
        /\ (last.op \in LeagueOps
              /\ LeagueResolver_resolve(leagues, last.name.v) = NoneId) =>
                /\ last.outcome = "InvalidLeagueError"
                /\ last.carried = last.name.v
                /\ last.ret = NoneV

\* a league results call was refused for a name that only names a team
C4_Witness ==
    /\ last.op = "get_league_match_results"
    /\ last.name = Some(<<"b", "b">>)
    /\ last.outcome = "InvalidLeagueError"
    /\ cache # EmptyCache

\* C5: when the caller supplies no name (None or the empty string), each of
\* the five operations returns an empty list and raises no error.
C5_NoNameEmptyList ==
    (last.op \in ServiceOps /\ (last.name.isNone \/ last.name.v = <<>>)) =>
        /\ last.outcome = "return"
        /\ last.ret = Some(<<>>)

\* a team call with the empty string, made while the cache holds team data
C5_Witness ==
    /\ last.op = "get_team_upcoming_matches"
    /\ last.name = Some(<<>>)
    /\ last.ret = Some(<<>>)
    /\ \E k \in DOMAIN cache : cache[k].data # <<>>

\* C6: two calls read or write the same cache entry if and only if they
\* agree on operation kind, scope, resolved ID and limit (season for
\* standings); the same team with two limits never shares an entry, and a
\* team-scoped and a league-scoped call never collide even when the team ID
\* equals the league ID.  Stated of any two consecutive calls that reach the
\* cache.
C6_KeyIsolation ==
    [][ (last.op \in ServiceOps /\ last.key # ""
           /\ last'.op \in ServiceOps /\ last'.key # "") =>
            ((last'.key = last.key) <=> (last'.target = last.target))
      ]_vars

\* a league call missed while the team entry of equal ID and limit is cached
C6_Witness ==
    /\ last.target = Target("upcoming", "league", 1, 1, "")
    /\ last.before.isNone
    /\ last.client # <<>>
    /\ key_team_upcoming(1, 1) \in DOMAIN cache

\* a team call missed while the same team's entry for the other limit is
\* cached
C6_WitnessLimit ==
    /\ last.target = Target("upcoming", "team", 1, 2, "")
    /\ last.before.isNone
    /\ last.client # <<>>
    /\ key_team_upcoming(1, 1) \in DOMAIN cache

(***************************************************************************)
(* The resolvers applied to the tables their files can hold: SpecTeam.     *)
(* teams.json and leagues.json are JSON objects, so the names of a table   *)
(* are distinct as strings; they may still agree up to case or surrounding *)
(* blanks, and two names may carry the same id.                            *)
(***************************************************************************)
MaxTeams == 2

TeamNames ==
    {<<"a">>, <<"A">>, <<"a", "b">>, <<" ", "a">>, <<"a", "b", "b">>}
TeamIds == {1, 2}
TeamTables ==
    UNION {{t \in [1..n -> [name : TeamNames, id : TeamIds]] :
               \A i \in 1..n, j \in 1..n : i # j => t[i].name # t[j].name} :
           n \in 0..MaxTeams}
NamedLeagueTables ==
    UNION {{t \in [1..n -> [name : TeamNames, id : TeamIds,
                            aliases : {<<>>, << <<"a">> >>}]] :
               \A i \in 1..n, j \in 1..n : i # j => t[i].name # t[j].name} :
           n \in 1..MaxTeams}
TeamQueries ==
    {<<"a">>, <<"A", " ">>, <<"b">>, <<"a", "b">>, <<"z">>, <<" ">>}
EntityIds == TeamIds \cup {3}

TeamResolve_promote(query) ==
    /\ last' = [NoObs EXCEPT !.op = "TeamResolver.resolve",
                             !.name = Some(query),
                             !.target.id = team_resolver_resolve(query)]
    /\ teams' = [i \in 1..Len(teams) |-> teams[Len(teams) + 1 - i]]
    /\ UNCHANGED <<now, cache, stats, today, leagues, matches, standings,
                   client_db, pool, loop>>

\* resolve and get_name: the result, and no assignment to the tables
TeamResolve(query) ==
    /\ last' = [NoObs EXCEPT !.op = "TeamResolver.resolve",
                             !.name = Some(query),
                             !.target.id = team_resolver_resolve(query)]
    /\ UNCHANGED <<now, cache, stats, svc>>

TeamGetName(entity_id) ==
    /\ last' = [NoObs EXCEPT !.op = "TeamResolver.get_name",
                             !.target.id = entity_id,
                             !.ret = TeamResolver_get_name(teams, entity_id)]
    /\ UNCHANGED <<now, cache, stats, svc>>

LeagueGetName(entity_id) ==
    /\ last' = [NoObs EXCEPT !.op = "LeagueResolver.get_name",
                             !.target.id = entity_id,
                             !.ret = LeagueResolver_get_name(leagues,
                                                             entity_id)]
    /\ UNCHANGED <<now, cache, stats, svc>>

InitTeam ==
    /\ now = 0
    /\ cache = EmptyCache
    /\ stats = ZeroStats
    /\ last = NoObs
    /\ today = [year |-> 2024, month |-> 8]
    /\ \/ teams \in TeamTables /\ leagues = <<>>
       \/ teams = <<>> /\ leagues \in NamedLeagueTables
    /\ matches = {}
    /\ standings = {}
    /\ client_db = FALSE
    /\ pool = NoPool
    /\ loop = IdleLoop

NextTeam ==
    \/ \E query \in TeamQueries : TeamResolve(query)
    \/ \E entity_id \in EntityIds : TeamGetName(entity_id)
    \/ \E entity_id \in EntityIds : LeagueGetName(entity_id)

SpecTeam == InitTeam /\ [][NextTeam]_vars

(***************************************************************************)
(* Claims about TeamResolver, checked under SpecTeam                       *)
(***************************************************************************)
\* the positions of the table whose name equals, or contains, the query
TeamByName(q) == {i \in 1..Len(teams) : lower(teams[i].name) = q}
TeamByPart(q) == {i \in 1..Len(teams) : contains(lower(teams[i].name), q)}

\* C21: TeamResolver.resolve returns the ID of the first team in load order
\* whose canonical name equals the normalized query case-insensitively; if
\* there is none, the ID of the first team in load order whose lower-cased
\* canonical name contains the normalized query; otherwise not-found.  A
\* longer or more specific substring match is never picked over an earlier
\* one.
C21_TeamFirstMatch ==
    last.op = "TeamResolver.resolve" =>
        LET q == strip(lower(last.name.v))
            phase == IF TeamByName(q) # {} THEN TeamByName(q)
                     ELSE TeamByPart(q)
        IN  IF phase = {}
            THEN last.target.id = NoneId
            ELSE \E i \in phase :
                    /\ \A j \in phase : i <= j
                    /\ last.target.id = teams[i].id

\* no name equals the query; the first team contains it in a longer name
\* than the second team does, and the first team is returned
C21_Witness ==
    /\ last.op = "TeamResolver.resolve"
    /\ Len(teams) = 2
    /\ TeamByName(strip(lower(last.name.v))) = {}
    /\ TeamByPart(strip(lower(last.name.v))) = {1, 2}
    /\ Len(teams[1].name) > Len(teams[2].name)
    /\ teams[1].id # teams[2].id
    /\ last.target.id = teams[1].id

\* the first team contains the query, the second team's name equals it: the
\* second team is returned
C21_WitnessExact ==
    /\ last.op = "TeamResolver.resolve"
    /\ Len(teams) = 2
    /\ TeamByName(strip(lower(last.name.v))) = {2}
    /\ 1 \in TeamByPart(strip(lower(last.name.v)))
    /\ teams[1].id # teams[2].id
    /\ last.target.id = teams[2].id

(***************************************************************************)
(* Claims about get_name, checked under SpecTeam                           *)
(***************************************************************************)
GetNameOps == {"TeamResolver.get_name", "LeagueResolver.get_name"}

\* the table get_name read, and resolve of the same resolver on a name
NameTable == IF last.op = "TeamResolver.get_name" THEN teams ELSE leagues
ResolveBack(name) ==
    IF last.op = "TeamResolver.get_name"
    THEN TeamResolver_resolve(teams, name)
    ELSE LeagueResolver_resolve(leagues, name)

\* the positions of the table that carry the id asked for
Carrying == {i \in 1..Len(NameTable) : NameTable[i].id = last.target.id}

\* the name at position i has no surrounding blanks and no earlier name of
\* the table equals it up to case
Unambiguous(table, i) ==
    /\ strip(table[i].name) = table[i].name
    /\ \A j \in 1..(i - 1) : lower(table[j].name) # lower(table[i].name)

\* C24 as stated: get_name is the inverse of resolve over the same table --
\* for every ID present in the table get_name(id) returns a canonical name
\* and resolve(get_name(id)) returns id; for an ID not in the table
\* get_name returns not-found.
C24_GetNameInverse ==
    last.op \in GetNameOps =>
        IF Carrying = {}
        THEN last.ret = NoneV
        ELSE /\ ~last.ret.isNone
             /\ \E i \in Carrying : NameTable[i].name = last.ret.v
             /\ ResolveBack(last.ret.v) = last.target.id

\* C24 amended: for every ID present in the table get_name(id) returns the
\* first canonical name in load order that carries the id, and
\* resolve(get_name(id)) returns id whenever that name has no surrounding
\* blanks and no earlier name of the table equals it up to case; for an ID
\* not in the table get_name returns not-found.
C24_GetNameInverseUnambiguous ==
    last.op \in GetNameOps =>
        IF Carrying = {}
        THEN last.ret = NoneV
        ELSE \E i \in Carrying :
                /\ \A j \in Carrying : i <= j
                /\ last.ret = Some(NameTable[i].name)
                /\ Unambiguous(NameTable, i) =>
                      ResolveBack(last.ret.v) = last.target.id

\* get_name returned the second name of a table whose first name contains
\* it, and resolve of that name gives the id back
C24_Witness ==
    /\ last.op = "TeamResolver.get_name"
    /\ Len(teams) = 2
    /\ Carrying = {2}
    /\ last.ret = Some(teams[2].name)
    /\ Unambiguous(teams, 2)
    /\ contains(lower(teams[1].name), lower(teams[2].name))
    /\ TeamResolver_resolve(teams, last.ret.v) = 2

\* the same for a league whose name another league lists as an alias
C24_WitnessLeague ==
    /\ last.op = "LeagueResolver.get_name"
    /\ Len(leagues) = 2
    /\ Carrying = {2}
    /\ Unambiguous(leagues, 2)
    /\ leagues[1].aliases = << lower(leagues[2].name) >>
    /\ LeagueResolver_resolve(leagues, last.ret.v) = leagues[2].id

\* get_name returned a name that an earlier name equals up to case, and
\* resolve of it gives the earlier team's id
C24_WitnessAmbiguous ==
    /\ last.op = "TeamResolver.get_name"
    /\ Carrying # {}
    /\ ~last.ret.isNone
    /\ TeamResolver_resolve(teams, last.ret.v) # last.target.id

(***************************************************************************)
(* The resolvers of a running service, called between service calls:       *)
(* SpecTables                                                              *)
(***************************************************************************)
LeagueResolverResolve(query) ==
    /\ last' = [NoObs EXCEPT !.op = "LeagueResolver.resolve",
                             !.name = Some(query),
                             !.target.id = league_resolver_resolve(query)]
    /\ UNCHANGED <<now, cache, stats, svc>>

TablesNames == {Some(<<"a", "b">>), Some(<<"b">>), Some(<<"z">>)}

NextTables ==
    \/ Tick
    \/ \E name \in TablesNames : get_team_upcoming_matches(name, 1)
    \/ \E name \in TablesNames : get_standings(name, Some("2024"))
    \/ \E query \in TeamQueries : TeamResolve(query)
    \/ \E query \in LeagueQueries : LeagueResolverResolve(query)
    \/ \E entity_id \in EntityIds : TeamGetName(entity_id)
    \/ \E entity_id \in EntityIds : LeagueGetName(entity_id)

SpecTables == Init /\ [][NextTables]_vars

\* C23: resolve and get_name never modify the resolver tables, so after any
\* sequence of resolver and service calls, resolving the same name again
\* yields the same ID (or not-found): no step changes a table, and every
\* resolution, direct or inside a service call, gives what the tables as
\* loaded give for the name.
C23_TablesUntouched ==
    [][ /\ teams' = teams
        /\ leagues' = leagues
        /\ last'.op = "TeamResolver.resolve" =>
              last'.target.id = TeamResolver_resolve(TeamsTable, last'.name.v)
        /\ last'.op = "LeagueResolver.resolve" =>
              last'.target.id =
                  LeagueResolver_resolve(LeaguesTable, last'.name.v)
        /\ (last'.op = "get_team_upcoming_matches" /\ last'.key # "") =>
              last'.target.id = TeamResolver_resolve(TeamsTable, last'.name.v)
        /\ (last'.op = "get_standings" /\ last'.key # "") =>
              last'.target.id =
                  LeagueResolver_resolve(LeaguesTable, last'.name.v)
      ]_vars

\* after a service call that resolved a team and stored its matches, the
\* name "b" -- contained in both teams' names -- resolves to the first team
C23_Witness ==
    /\ last.op = "TeamResolver.resolve"
    /\ last.name = Some(<<"b">>)
    /\ last.target.id = 1
    /\ key_team_upcoming(1, 1) \in DOMAIN cache
    /\ stats.misses > 0

(***************************************************************************)
(* Construction of the resolvers from their files: SpecLoad.  A file is    *)
(* missing, or open() fails on it, or its bytes are not UTF-8, or it is    *)
(* not JSON, or it holds a JSON value.  A JSON value is kept with its      *)
(* Python type; an object is the sequence of its members in file order.    *)
(* In this specification teams and leagues hold the resolver objects: the  *)
(* value of self.teams / self.leagues, whether the constructor returned,   *)
(* and the file the object was built from.                                 *)
(***************************************************************************)
PyDict(members) == [type |-> "dict", items |-> members]
PyList == [type |-> "list", items |-> <<>>]
PyNone == [type |-> "NoneType", items |-> <<>>]

File(kind, json) == [kind |-> kind, json |-> json]
NoFile == File("", PyNone)
Unbuilt == [table |-> PyNone, built |-> FALSE, source |-> NoFile]

Loaded(table, exc) == [table |-> table, exc |-> exc]

\* TeamResolver._load_teams: the value left in self.teams, and the
\* exception that leaves the method.  (json.JSONDecodeError, IOError) are
\* caught; UnicodeDecodeError is a ValueError that is not a
\* JSONDecodeError; len() of a loaded null raises TypeError inside the try.
_load_teams(file) ==
    CASE file.kind = "missing" -> Loaded(PyDict(<<>>), "")
      [] file.kind = "unreadable" -> Loaded(PyDict(<<>>), "")
      [] file.kind = "not_utf8" -> Loaded(PyDict(<<>>), "UnicodeDecodeError")
      [] file.kind = "invalid_json" -> Loaded(PyDict(<<>>), "")
      [] OTHER ->
           IF file.json.type = "NoneType"
           THEN Loaded(file.json, "TypeError")
           ELSE Loaded(file.json, "")

\* a member of leagues.json: its value is an object with or without "id"
\* (id is NoneV when the key is absent), or a value of another type
LeagueData(id, aliases) == [type |-> "dict", id |-> id, aliases |-> aliases]
NotLeagueData == [type |-> "int", id |-> NoneV, aliases |-> <<>>]

\* LeagueResolver._load_leagues: data.items() on a value that is not an
\* object raises AttributeError and league_data["id"] on a value that is
\* not an object raises TypeError, neither of which is caught; a missing
\* "id" raises KeyError, which is caught and empties both tables.
_load_leagues(file) ==
    CASE file.kind = "missing" -> Loaded(PyDict(<<>>), "")
      [] file.kind = "unreadable" -> Loaded(PyDict(<<>>), "")
      [] file.kind = "not_utf8" -> Loaded(PyDict(<<>>), "UnicodeDecodeError")
      [] file.kind = "invalid_json" -> Loaded(PyDict(<<>>), "")
      [] OTHER ->
           IF file.json.type # "dict"
           THEN Loaded(PyDict(<<>>), "AttributeError")
           ELSE LET data == file.json.items
                    bad == {i \in 1..Len(data) :
                               \/ data[i].data.type # "dict"
                               \/ data[i].data.id.isNone}
                    first == FirstIndex(bad)
                IN  IF first = 0
                    THEN Loaded(PyDict([i \in 1..Len(data) |->
                                    [name |-> data[i].name,
                                     id |-> data[i].data.id.v,
                                     aliases |-> data[i].data.aliases]]), "")
                    ELSE IF data[first].data.type # "dict"
                    THEN Loaded(PyDict(<<>>), "TypeError")
                    ELSE Loaded(PyDict(<<>>), "")

\* self.teams.items() / self.leagues.items(): only a dict has the method
dict_items(value) ==
    IF value.type = "dict" THEN [exc |-> "", items |-> value.items]
    ELSE [exc |-> "AttributeError", items |-> <<>>]

TeamFiles ==
    {File("missing", PyNone), File("unreadable", PyNone),
     File("not_utf8", PyNone), File("invalid_json", PyNone),
     File("json", PyDict(<<>>)), File("json", PyDict(TeamsTable)),
     File("json", PyList), File("json", PyNone)}

LeagueMembers ==
    { <<>>,
      << [name |-> <<"a", "b">>, data |-> LeagueData(Some(1), <<>>)] >>,
      << [name |-> <<"a", "b">>,
          data |-> LeagueData(Some(1), << <<"L", "b">> >>)],
         [name |-> <<"b">>, data |-> LeagueData(NoneV, <<>>)] >>,
      << [name |-> <<"a", "b">>, data |-> LeagueData(Some(1), <<>>)],
         [name |-> <<"b">>, data |-> NotLeagueData] >> }

LeagueFiles ==
    {File("missing", PyNone), File("unreadable", PyNone),
     File("not_utf8", PyNone), File("invalid_json", PyNone),
     File("json", PyList), File("json", PyNone)}
    \cup {File("json", PyDict(m)) : m \in LeagueMembers}

\* TeamResolver(data_dir) and LeagueResolver(data_dir)
TeamResolverNew(file) ==
    /\ ~teams.built
    /\ LET r == _load_teams(file)
       IN  /\ teams' = [table |-> r.table, built |-> r.exc = "",
                        source |-> file]
           /\ last' = [NoObs EXCEPT
                         !.op = "TeamResolver", !.before = Some(file),
                         !.outcome = IF r.exc = "" THEN "return" ELSE r.exc]
    /\ UNCHANGED <<now, cache, stats, today, leagues, matches, standings,
                   client_db, pool, loop>>

LeagueResolverNew(file) ==
    /\ ~leagues.built
    /\ LET r == _load_leagues(file)
       IN  /\ leagues' = [table |-> r.table, built |-> r.exc = "",
                          source |-> file]
           /\ last' = [NoObs EXCEPT
                         !.op = "LeagueResolver", !.before = Some(file),
                         !.outcome = IF r.exc = "" THEN "return" ELSE r.exc]
    /\ UNCHANGED <<now, cache, stats, today, teams, matches, standings,
                   client_db, pool, loop>>

\* a call on a resolver whose constructor returned
LoadedTeamResolve(query) ==
    /\ teams.built
    /\ LET it == dict_items(teams.table)
       IN  last' = [NoObs EXCEPT
                      !.op = "TeamResolver.resolve", !.name = Some(query),
                      !.outcome = IF it.exc = "" THEN "return" ELSE it.exc,
                      !.target.id = TeamResolver_resolve(it.items, query)]
    /\ UNCHANGED <<now, cache, stats, svc>>

LoadedTeamGetName(entity_id) ==
    /\ teams.built
    /\ LET it == dict_items(teams.table)
       IN  last' = [NoObs EXCEPT
                      !.op = "TeamResolver.get_name",
                      !.target.id = entity_id,
                      !.outcome = IF it.exc = "" THEN "return" ELSE it.exc,
                      !.ret = TeamResolver_get_name(it.items, entity_id)]
    /\ UNCHANGED <<now, cache, stats, svc>>

LoadedLeagueResolve(query) ==
    /\ leagues.built
    /\ LET it == dict_items(leagues.table)
       IN  last' = [NoObs EXCEPT
                      !.op = "LeagueResolver.resolve", !.name = Some(query),
                      !.outcome = IF it.exc = "" THEN "return" ELSE it.exc,
                      !.target.id = LeagueResolver_resolve(it.items, query)]
    /\ UNCHANGED <<now, cache, stats, svc>>

LoadedLeagueGetName(entity_id) ==
    /\ leagues.built
    /\ LET it == dict_items(leagues.table)
       IN  last' = [NoObs EXCEPT
                      !.op = "LeagueResolver.get_name",
                      !.target.id = entity_id,
                      !.outcome = IF it.exc = "" THEN "return" ELSE it.exc,
                      !.ret = LeagueResolver_get_name(it.items, entity_id)]
    /\ UNCHANGED <<now, cache, stats, svc>>

InitLoad ==
    /\ now = 0
    /\ cache = EmptyCache
    /\ stats = ZeroStats
    /\ last = NoObs
    /\ today = [year |-> 2024, month |-> 8]
    /\ teams = Unbuilt
    /\ leagues = Unbuilt
    /\ matches = {}
    /\ standings = {}
    /\ client_db = FALSE
    /\ pool = NoPool
    /\ loop = IdleLoop

NextLoad ==
    \/ \E file \in TeamFiles : TeamResolverNew(file)
    \/ \E file \in LeagueFiles : LeagueResolverNew(file)
    \/ \E query \in TeamQueries : LoadedTeamResolve(query)
    \/ \E entity_id \in EntityIds : LoadedTeamGetName(entity_id)
    \/ \E query \in TeamQueries : LoadedLeagueResolve(query)
    \/ \E entity_id \in EntityIds : LoadedLeagueGetName(entity_id)

SpecLoad == InitLoad /\ [][NextLoad]_vars

(***************************************************************************)
(* Claims about resolver construction, checked under SpecLoad              *)
(***************************************************************************)
\* the file did not yield a table: it is missing, unreadable, not JSON, or
\* JSON of the wrong shape
TeamLoadFailed(file) == file.kind # "json" \/ file.json.type # "dict"
LeagueLoadFailed(file) ==
    \/ file.kind # "json"
    \/ file.json.type # "dict"
    \/ \E i \in 1..Len(file.json.items) :
          \/ file.json.items[i].data.type # "dict"
          \/ file.json.items[i].data.id.isNone

\* C22: constructing a LeagueResolver or TeamResolver never raises whatever
\* the state of its source file (missing, unreadable, not valid JSON, or
\* valid JSON of the wrong shape); on any load failure the table is empty,
\* and every later resolve and get_name returns not-found without raising.
C22_LoadNeverRaises ==
    /\ last.op = "TeamResolver" =>
          /\ last.outcome = "return"
          /\ TeamLoadFailed(last.before.v) => teams.table = PyDict(<<>>)
    /\ last.op = "LeagueResolver" =>
          /\ last.outcome = "return"
          /\ LeagueLoadFailed(last.before.v) => leagues.table = PyDict(<<>>)
    /\ (last.op \in {"TeamResolver.resolve", "TeamResolver.get_name"}
          /\ TeamLoadFailed(teams.source)) =>
          /\ last.outcome = "return"
          /\ last.target.id = NoneId \/ last.op = "TeamResolver.get_name"
          /\ last.ret = NoneV
    /\ (last.op \in {"LeagueResolver.resolve", "LeagueResolver.get_name"}
          /\ LeagueLoadFailed(leagues.source)) =>
          /\ last.outcome = "return"
          /\ last.target.id = NoneId \/ last.op = "LeagueResolver.get_name"
          /\ last.ret = NoneV

\* what does hold: a file that is missing, unreadable or not JSON, and a
\* leagues.json member without "id", give an empty table without raising
C22_CaughtFailuresGiveEmptyTable ==
    /\ (last.op = "TeamResolver"
          /\ last.before.v.kind \in {"missing", "unreadable", "invalid_json"})
          => /\ last.outcome = "return"
             /\ teams.table = PyDict(<<>>)
    /\ (last.op = "LeagueResolver"
          /\ \/ last.before.v.kind \in {"missing", "unreadable",
                                        "invalid_json"}
             \/ /\ last.before.v.kind = "json"
                /\ last.before.v.json.type = "dict"
                /\ \A i \in 1..Len(last.before.v.json.items) :
                      last.before.v.json.items[i].data.type = "dict"
                /\ LeagueLoadFailed(last.before.v))
          => /\ last.outcome = "return"
             /\ leagues.table = PyDict(<<>>)

\* teams.json held a JSON array: the constructor returned and resolve raised
C22_WitnessArray ==
    /\ last.op = "TeamResolver.resolve"
    /\ teams.source = File("json", PyList)
    /\ last.outcome = "AttributeError"

\* leagues.json had a member without "id" after a good one: empty table
C22_WitnessKeyError ==
    /\ last.op = "LeagueResolver"
    /\ last.before.v.kind = "json"
    /\ Len(last.before.v.json.items) = 2
    /\ last.outcome = "return"
    /\ leagues.table = PyDict(<<>>)

(***************************************************************************)
(* MongoDBClient called directly, on the client the service built:         *)
(* SpecClient.  The standings collection is whatever the store holds; the  *)
(* limit is one the tools pass on (1..20, tools.py:58-59).                 *)
(***************************************************************************)
ClientLeagueIds == {NoneId, 1, 2}
ClientTeamIds == {NoneId, 1, 2, 3}
ClientLimits == {1, 2, 3}
ClientSeasons == {"2023", "2024"}

\* stores of standings: dense positions, a gap, a duplicate position, and a
\* document without its team
StandingStores ==
    { StandingDocs,
      { [_id |-> "s1", team_id |-> 1, league_id |-> 1, season |-> "2023",
         position |-> 1],
        [_id |-> "s2", team_id |-> 2, league_id |-> 1, season |-> "2023",
         position |-> 3] },
      { [_id |-> "s1", team_id |-> 1, league_id |-> 1, season |-> "2023",
         position |-> 2],
        [_id |-> "s2", team_id |-> 2, league_id |-> 1, season |-> "2023",
         position |-> 2],
        [_id |-> "s3", team_id |-> 3, league_id |-> 1, season |-> "2023",
         position |-> 3] },
      { [_id |-> "s1", team_id |-> 1, league_id |-> 1, season |-> "2024",
         position |-> 1],
        [_id |-> "s2", league_id |-> 1, season |-> "2024",
         position |-> 2] } }

\* the observation of a DataClient call: the call, the clock at the call,
\* whether _db was set, and the lists returned or the exception raised with
\* the filter it carries
ClientObs(call, out) ==
    [NoObs EXCEPT !.op = call.fn, !.at = now, !.client = <<call>>,
                  !.before = Some(client_db),
                  !.ret = IF out.exc = "" THEN Some(out.value) ELSE NoneV,
                  !.outcome = IF out.exc = "" THEN "return" ELSE out.exc,
                  !.carried = IF out.exc = "MongoDBQueryError"
                              THEN <<out.query>> ELSE <<>>]

ClientUpcoming(league_id, team_id, limit) ==
    /\ \E io_ok \in BOOLEAN :
       \E out \in MongoDBClient_get_upcoming_fixtures(
                      client_db, io_ok, matches, league_id, team_id, limit,
                      now) :
          last' = ClientObs(ClientCall("get_upcoming_fixtures", league_id,
                                       team_id, limit, ""), out)
    /\ UNCHANGED <<now, cache, stats, svc>>

ClientPast(league_id, team_id, limit) ==
    /\ \E io_ok \in BOOLEAN :
       \E out \in MongoDBClient_get_past_fixtures(
                      client_db, io_ok, matches, league_id, team_id, limit,
                      now) :
          last' = ClientObs(ClientCall("get_past_fixtures", league_id,
                                       team_id, limit, ""), out)
    /\ UNCHANGED <<now, cache, stats, svc>>

ClientStandings(league_id, season) ==
    /\ \E io_ok \in BOOLEAN :
       \E out \in MongoDBClient_get_standings(
                      client_db, io_ok, standings, league_id, season) :
          last' = ClientObs(ClientCall("get_standings", league_id, NoneId, 0,
                                       season), out)
    /\ UNCHANGED <<now, cache, stats, svc>>

ClientClose ==
    /\ client_db
    /\ LET c == MongoDBClient_close(pool, client_db)
       IN  /\ pool' = c.pool
           /\ client_db' = c.client_db
    /\ last' = [NoObs EXCEPT !.op = "close", !.at = now]
    /\ UNCHANGED <<now, cache, stats, today, teams, leagues, matches,
                   standings, loop>>

InitClient ==
    /\ now = 0
    /\ cache = EmptyCache
    /\ stats = ZeroStats
    /\ last = NoObs
    /\ today \in Todays
    /\ teams = TeamsTable
    /\ leagues = LeaguesTable
    /\ matches = MatchDocs
    /\ standings \in StandingStores
    /\ client_db = TRUE
    /\ pool = ServicePool
    /\ loop = IdleLoop

NextClient ==
    \/ Tick
    \/ \E league_id \in ClientLeagueIds, team_id \in ClientTeamIds,
          limit \in ClientLimits : ClientUpcoming(league_id, team_id, limit)
    \/ \E league_id \in ClientLeagueIds, team_id \in ClientTeamIds,
          limit \in ClientLimits : ClientPast(league_id, team_id, limit)
    \/ \E league_id \in ClientLeagueIds \ {NoneId},
          season \in ClientSeasons : ClientStandings(league_id, season)
    \/ ClientClose

SpecClient == InitClient /\ [][NextClient]_vars

(***************************************************************************)
(* Claims about MongoDBClient, checked under SpecClient                    *)
(***************************************************************************)
FixtureOps == {"get_upcoming_fixtures", "get_past_fixtures"}

\* the call observed and the records it returned
TheCall == last.client[1]
Got == last.ret.v

\* a record satisfies the team and league filters of the call
MeetsFilters(m, call) ==
    /\ call.team_id # NoneId =>
          (m.home_team_id = call.team_id \/ m.away_team_id = call.team_id)
    /\ call.league_id # NoneId => m.league_id = call.league_id

\* C25: every Match returned by get_upcoming_fixtures has status upcoming
\* and a kickoff at or after the time of the call; every Match returned by
\* get_past_fixtures has status finished and a kickoff strictly before it;
\* every returned Match satisfies the requested team filter (home or away)
\* and league filter.
C25_FixturesFiltered ==
    (last.op \in FixtureOps /\ last.outcome = "return") =>
        \A i \in 1..Len(Got) :
            /\ MeetsFilters(Got[i], TheCall)
            /\ last.op = "get_upcoming_fixtures" =>
                  (Got[i].status = "upcoming" /\ Got[i].date >= last.at)
            /\ last.op = "get_past_fixtures" =>
                  (Got[i].status = "finished" /\ Got[i].date < last.at)

\* an upcoming call for team 1 made at the kickoff time of a match of team
\* 1 returned that match and left out the finished match of the same team
C25_Witness ==
    /\ last.op = "get_upcoming_fixtures"
    /\ last.outcome = "return"
    /\ TheCall.team_id = 1
    /\ TheCall.league_id = NoneId
    /\ last.at = 1
    /\ Len(Got) = 2
    /\ Got[1].id = "m1" /\ Got[1].date = last.at

\* a past call at the kickoff time of a finished match left it out
C25_WitnessPast ==
    /\ last.op = "get_past_fixtures"
    /\ last.outcome = "return"
    /\ last.at = 2
    /\ TheCall.league_id = 1
    /\ Len(Got) = 1
    /\ Got[1].id = "m3"

\* the documents of the store that a fixtures call asks for
Asked ==
    {d \in matches :
        /\ "status" \in DOMAIN d /\ "date" \in DOMAIN d
        /\ IF last.op = "get_upcoming_fixtures"
           THEN d.status = "upcoming" /\ d.date >= last.at
           ELSE d.status = "finished" /\ d.date < last.at
        /\ TheCall.team_id # NoneId =>
              (d.home_team_id = TheCall.team_id
                 \/ d.away_team_id = TheCall.team_id)
        /\ TheCall.league_id # NoneId => d.league_id = TheCall.league_id}

\* d comes no later than e in the order of the operation
InOrder(d, e) ==
    IF last.op = "get_upcoming_fixtures" THEN d <= e ELSE d >= e

\* C26: get_upcoming_fixtures returns its records sorted ascending by
\* kickoff and get_past_fixtures sorted descending by kickoff (most recent
\* first); each returns at most limit records, namely the first limit
\* records of that order.
C26_FixturesSortedLimited ==
    (last.op \in FixtureOps /\ last.outcome = "return") =>
        /\ Len(Got) <= TheCall.limit
        /\ Len(Got) = IF Cardinality(Asked) < TheCall.limit
                      THEN Cardinality(Asked) ELSE TheCall.limit
        /\ \A i \in 1..Len(Got), j \in 1..Len(Got) :
              i < j => /\ InOrder(Got[i].date, Got[j].date)
                       /\ Got[i].id # Got[j].id
        /\ \A i \in 1..Len(Got) : \E d \in Asked : d._id = Got[i].id
        /\ \A d \in Asked :
              (\A i \in 1..Len(Got) : Got[i].id # d._id) =>
                  \A i \in 1..Len(Got) : InOrder(Got[i].date, d.date)

\* a past call with limit 1 returned the most recent of two finished matches
C26_Witness ==
    /\ last.op = "get_past_fixtures"
    /\ last.outcome = "return"
    /\ TheCall.limit = 1
    /\ Cardinality(Asked) = 2
    /\ Len(Got) = 1
    /\ Got[1].id = "m4"

\* an upcoming call with limit 1 returned the earliest of two matches
C26_WitnessUpcoming ==
    /\ last.op = "get_upcoming_fixtures"
    /\ last.outcome = "return"
    /\ TheCall.limit = 1
    /\ Cardinality(Asked) = 2
    /\ Len(Got) = 1
    /\ Got[1].id = "m1"

\* the stored standings of the league and season a get_standings call names
AskedStandings ==
    {d \in standings :
        /\ "league_id" \in DOMAIN d /\ d.league_id = TheCall.league_id
        /\ "season" \in DOMAIN d /\ d.season = TheCall.season}

\* C27 as stated: get_standings returns entries sorted ascending by
\* position, with strictly increasing positions that start at 1 and have no
\* gaps or duplicates.
C27_StandingsDense ==
    (last.op = "get_standings" /\ last.outcome = "return") =>
        \A i \in 1..Len(Got) : Got[i].position = i

\* C27 amended: get_standings returns every stored standing of the league
\* and season once, in non-decreasing order of position; the positions are
\* 1, 2, ... without gaps or duplicates exactly when the stored positions
\* of that league and season are.
C27_StandingsSorted ==
    (last.op = "get_standings" /\ last.outcome = "return") =>
        /\ \A i \in 1..Len(Got), j \in 1..Len(Got) :
              i < j => Got[i].position <= Got[j].position
        /\ Len(Got) = Cardinality(AskedStandings)
        /\ {Got[i].id : i \in 1..Len(Got)} = {d._id : d \in AskedStandings}
        /\ (\A i \in 1..Len(Got) : Got[i].position = i) <=>
              ({d.position : d \in AskedStandings}
                  = 1..Cardinality(AskedStandings))

\* two standings stored at positions 1 and 2 came back in that order
C27_Witness ==
    /\ last.op = "get_standings"
    /\ last.outcome = "return"
    /\ Len(Got) = 2
    /\ Got[1].position = 1 /\ Got[2].position = 2

\* the store holds positions 1 and 3 for the season: both came back
C27_WitnessGap ==
    /\ last.op = "get_standings"
    /\ last.outcome = "return"
    /\ Len(Got) = 2
    /\ Got[1].position = 1 /\ Got[2].position = 3

ClientOps == FixtureOps \cup {"get_standings"}

\* the filter the call observed builds
AttemptedFilter ==
    IF last.op = "get_upcoming_fixtures"
    THEN fixtures_query("upcoming", "$gte", last.at, TheCall.league_id,
                        TheCall.team_id)
    ELSE IF last.op = "get_past_fixtures"
    THEN fixtures_query("finished", "$lt", last.at, TheCall.league_id,
                        TheCall.team_id)
    ELSE standings_query(TheCall.league_id, TheCall.season)

\* C28: in each of the three DataClient operations a MongoDBConnectionError
\* is passed through unchanged, and every other exception -- raised while
\* obtaining the database handle, executing the query, or mapping a record
\* with a missing required field -- surfaces as MongoDBQueryError carrying
\* the attempted filter; a record that fails to map makes the whole call
\* fail rather than being skipped.
C28_ErrorsWrapped ==
    last.op \in ClientOps =>
        /\ last.outcome \in
              {"return", "MongoDBConnectionError", "MongoDBQueryError"}
        /\ last.outcome = "MongoDBQueryError" =>
              last.carried = <<AttemptedFilter>>
        /\ ~last.before.v => last.outcome = "MongoDBQueryError"
        /\ last.outcome = "return" =>
              \A i \in 1..Len(Got) :
                  (DOMAIN Got[i]) \ {"cls"} \in
                      {{"id"} \cup (MatchRequired \ {"_id"}),
                       {"id"} \cup (StandingRequired \ {"_id"})}

\* what does hold: with the handle set, a failed round trip and a record
\* that does not map raise MongoDBQueryError carrying the filter, and a
\* call that returns mapped every record it read
C28_QueryErrorsWrapped ==
    (last.op \in ClientOps /\ last.before.v) =>
        /\ last.outcome \in {"return", "MongoDBQueryError"}
        /\ last.outcome = "MongoDBQueryError" =>
              last.carried = <<AttemptedFilter>>
        /\ last.outcome = "return" =>
              \A i \in 1..Len(Got) :
                  (DOMAIN Got[i]) \ {"cls"} \in
                      {{"id"} \cup (MatchRequired \ {"_id"}),
                       {"id"} \cup (StandingRequired \ {"_id"})}

\* a call made after close(): obtaining the handle failed
C28_WitnessNoHandle ==
    /\ last.op = "get_standings"
    /\ ~last.before.v
    /\ last.outcome = "UnboundLocalError"

\* the match without its season was among those read: the call failed
C28_WitnessMapping ==
    /\ last.op = "get_upcoming_fixtures"
    /\ last.before.v
    /\ TheCall.league_id = 2
    /\ last.outcome = "MongoDBQueryError"
    /\ last.carried = <<AttemptedFilter>>

(***************************************************************************)
(* get_standings called without a season on any day of two years:          *)
(* SpecSeason.  Every get_standings call of this specification omits the   *)
(* season.                                                                 *)
(***************************************************************************)
SeasonDays == [year : {2024, 2025}, month : 1..12]
SeasonNames == {Some(<<"a", "b">>), Some(<<"z">>)}

InitSeason ==
    /\ now = 0
    /\ cache = EmptyCache
    /\ stats = ZeroStats
    /\ last = NoObs
    /\ today \in SeasonDays
    /\ teams = TeamsTable
    /\ leagues = LeaguesTable
    /\ matches = MatchDocs
    /\ standings = StandingDocs
    /\ client_db = TRUE
    /\ pool = ServicePool
    /\ loop = IdleLoop

NextSeason ==
    \/ Tick
    \/ \E name \in SeasonNames : get_standings(name, NoneV)

SpecSeason == InitSeason /\ [][NextSeason]_vars

\* C29: get_standings invoked without a season uses the current calendar
\* year if the current month is August or later and the previous calendar
\* year otherwise, rendered as a string: that season is in the cache key
\* and in the call to the DataClient.
C29_DefaultSeason ==
    (last.op = "get_standings" /\ last.key # "") =>
        LET season == IF today.month \in 8..12
                      THEN ToString(today.year)
                      ELSE ToString(today.year - 1)
        IN  /\ last.target.season = season
            /\ last.key = "standings:league:"
                             \o ToString(last.target.id) \o ":" \o season
            /\ \A i \in 1..Len(last.client) : last.client[i].season = season

\* in August 2024 the standings of season "2024" were fetched
C29_Witness ==
    /\ last.op = "get_standings"
    /\ today = [year |-> 2024, month |-> 8]
    /\ last.target.season = "2024"
    /\ Len(last.client) = 1
    /\ ~last.ret.isNone /\ Len(last.ret.v) = 1

\* in July 2024 the standings of season "2023" were fetched
C29_WitnessJuly ==
    /\ last.op = "get_standings"
    /\ today = [year |-> 2024, month |-> 7]
    /\ last.target.season = "2023"
    /\ Len(last.client) = 1
    /\ ~last.ret.isNone /\ Len(last.ret.v) = 2

(***************************************************************************)
(* The agent's tool functions on the service: SpecTools.  cleanup() is the *)
(* service's shutdown hook; after it the client has no database handle.    *)
(***************************************************************************)
ToolNames == {NoneV, Some(<<"a", "b">>), Some(<<"z">>)}
ToolLimits == {0, 21}

\* the reply of a tool function that returns before its service call
Refused(tool, text, suggestion) ==
    /\ last' = [NoObs EXCEPT
                  !.op = "tools." \o tool,
                  !.value = ToolReturn(tool, ToolError(text, <<>>,
                                                       suggestion))]
    /\ UNCHANGED <<now, cache, stats, svc>>

tool_get_upcoming_matches(league, team, limit) ==
    IF no_name(league) /\ no_name(team)
    THEN Refused("get_upcoming_matches",
             "Necesito saber de que equipo o liga quieres ver los proximos partidos",
             "Por favor especifica un equipo o una liga")
    ELSE IF ~no_name(league) /\ ~no_name(team)
    THEN Refused("get_upcoming_matches",
             "Solo puedo buscar por equipo O por liga, no ambos",
             "Especifica solo el equipo o solo la liga")
    ELSE IF ~no_name(team)
    THEN get_team_upcoming_matches_from(
             FromTool("get_upcoming_matches", limit), team,
             clamp_limit(limit))
    ELSE get_league_upcoming_matches_from(
             FromTool("get_upcoming_matches", limit), league,
             clamp_limit(limit))

tool_get_match_results(league, team, limit) ==
    IF no_name(league) /\ no_name(team)
    THEN Refused("get_match_results",
             "Necesito saber de que equipo o liga quieres ver los resultados",
             "Por favor especifica un equipo o una liga")
    ELSE IF ~no_name(league) /\ ~no_name(team)
    THEN Refused("get_match_results",
             "Solo puedo buscar por equipo O por liga, no ambos",
             "Especifica solo el equipo o solo la liga")
    ELSE IF ~no_name(team)
    THEN get_team_match_results_from(
             FromTool("get_match_results", limit), team,
             clamp_limit(limit))
    ELSE get_league_match_results_from(
             FromTool("get_match_results", limit), league,
             clamp_limit(limit))

tool_get_standings(league, season) ==
    IF no_name(league)
    THEN Refused("get_standings",
             "Necesito saber de que liga quieres ver la tabla de posiciones",
             "Por favor especifica una liga")
    ELSE get_standings_from(FromTool("get_standings", 0), league, season)

NextTools ==
    \/ Tick
    \/ \E league \in ToolNames, team \in ToolNames, limit \in ToolLimits :
          tool_get_upcoming_matches(league, team, limit)
    \/ \E league \in ToolNames, team \in ToolNames, limit \in ToolLimits :
          tool_get_match_results(league, team, limit)
    \/ \E league \in ToolNames, season \in Seasons :
          tool_get_standings(league, season)
    \/ cleanup

SpecTools == Init /\ [][NextTools]_vars

(***************************************************************************)
(* Claims about the tool functions, checked under SpecTools                *)
(***************************************************************************)
RefusedOps ==
    {"tools.get_upcoming_matches", "tools.get_match_results",
     "tools.get_standings"}

\* the kinds of failure a tool function tells apart
ErrorKind(outcome) ==
    IF outcome \in {"InvalidTeamError", "InvalidLeagueError",
                    "MongoDBConnectionError", "MongoDBQueryError"}
    THEN outcome ELSE "other"

\* the observation is of a service call, made by a tool, that raised
ToolFailed(o) == o.op \in ServiceOps /\ o.outcome # "return"

C30_WitnessQuery ==
    /\ last.op = "get_standings"
    /\ last.outcome = "MongoDBQueryError"
    /\ last.value.dict.error.text
          = "Hubo un problema al buscar la tabla de posiciones"

\* a tool call with limit 21 returned the data of a service call with 20
C30_WitnessData ==
    /\ last.op = "get_league_match_results"
    /\ last.outcome = "return"
    /\ last.target.limit = 20
    /\ Len(last.value.dict.data) = 2

(***************************************************************************)
(* The counters of MemoryCache, step by step                               *)
(***************************************************************************)
\* the entry a get of the observed key finds expired before it acts
FindsExpired ==
    /\ last'.key \in DOMAIN cache
    /\ is_expired(cache[last'.key], now)

CountedOnce ==
    \/ stats'.hits = stats.hits + 1 /\ stats'.misses = stats.misses
    \/ stats'.hits = stats.hits /\ stats'.misses = stats.misses + 1

GetsCounted == stats'.hits + stats'.misses = stats.hits + stats.misses

\* C39: every get adds one to exactly one of hits and misses, and one more to
\* evictions exactly when it finds the entry expired; set and delete change
\* no counter, and no other operation changes hits + misses, so hits + misses
\* is the number of get calls made so far.
C39_GetsCountedOnce ==
    [][/\ last'.op = "get" =>
            /\ CountedOnce
            /\ stats'.evictions =
                  stats.evictions + (IF FindsExpired THEN 1 ELSE 0)
       /\ last'.op \in {"set", "delete"} => stats' = stats
       /\ last'.op # "get" => GetsCounted]_vars

\* a get has just found an expired entry: a miss and an eviction, after a hit
C39_Witness ==
    /\ last.op = "get"
    /\ last.ret.isNone
    /\ stats.evictions = 1
    /\ stats.hits = 1
    /\ stats.misses = 1

\* a set has just run with the counters already moved
C39_WitnessSet ==
    /\ last.op = "set"
    /\ stats.hits = 1
    /\ stats.misses = 1

\* C40: clear() empties the cache and adds to evictions the number of
\* entries the cache held when it was called.
C40_ClearCountsEvictions ==
    [][last'.op = "clear" =>
            /\ cache' = EmptyCache
            /\ stats'.evictions =
                  stats.evictions + Cardinality(DOMAIN cache)]_vars

\* clear() empties the cache
C40_ClearEmpties == last.op = "clear" => cache = EmptyCache

(***************************************************************************)
(* What the service serves from its cache                                  *)
(***************************************************************************)
\* the call returned a list without calling the DataClient
ServedFromCache ==
    /\ last.op \in ServiceOps
    /\ last.key # ""
    /\ last.outcome = "return"
    /\ last.client = <<>>

\* C33: a list an operation returns from the cache is the data of an entry
\* written with the TTL of the operation's category at most that many
\* seconds before the call; no entry older than its TTL is ever returned.
C33_ServedWithinTtl ==
    ServedFromCache =>
        /\ ~last.before.isNone
        /\ last.ret = Some(last.before.v.data)
        /\ last.before.v.ttl = TtlOf(last.target.kind)
        /\ Age(last.before.v, last.at) >= 0
        /\ Age(last.before.v, last.at) <= TtlOf(last.target.kind)

\* a list served at the very end of its entry's life
C33_Witness ==
    /\ ServedFromCache
    /\ last.target.kind = "past"
    /\ Age(last.before.v, last.at) = cache_ttl_past_matches
    /\ last.ret.v # <<>>

\* C35: an empty list fetched for a resolved entity is stored like any
\* other result, and a repeat of the call within the TTL returns the empty
\* list from the cache without a DataClient call.
C35_EmptyListCached ==
    /\ (Missed /\ last.outcome = "return" /\ last.ret = Some(<<>>)) =>
            /\ last.writes # <<>>
            /\ last.key \in DOMAIN cache
            /\ cache[last.key].data = <<>>
    /\ (FoundFresh /\ last.before.v.data = <<>>) =>
            /\ last.outcome = "return"
            /\ last.ret = Some(<<>>)
            /\ last.client = <<>>
            /\ last.writes = <<>>
            /\ stats.hits >= 1

\* an empty list has just been served from an entry stored earlier
C35_Witness ==
    /\ FoundFresh
    /\ last.before.v.data = <<>>
    /\ last.target.id # NoneId
    /\ last.ret = Some(<<>>)
    /\ last.before.v.cached_at < last.at

\* the call named nothing, or named something its resolver does not know
NothingAsked ==
    /\ last'.op \in ServiceOps
    /\ \/ last'.name.isNone
       \/ last'.name.v = <<>>
       \/ last'.outcome \in {"InvalidTeamError", "InvalidLeagueError"}

\* C36: a call that returns the empty list because no name was given, or
\* that raises InvalidTeamError or InvalidLeagueError, leaves the cache
\* entries and the hit, miss and eviction counters as they were and makes
\* no DataClient call.
C36_NothingAskedNothingTouched ==
    [][NothingAsked =>
            /\ cache' = cache
            /\ stats' = stats
            /\ last'.client = <<>>
            /\ last'.writes = <<>>
            /\ last'.key = ""]_vars

\* an unknown name was refused with entries and counters already in place
C36_Witness ==
    /\ last.op \in ServiceOps
    /\ last.outcome = "InvalidLeagueError"
    /\ cache # EmptyCache
    /\ stats.hits >= 1
    /\ stats.misses >= 1

\* a call without a name returned the empty list with entries in place
C36_WitnessNoName ==
    /\ last.op \in ServiceOps
    /\ last.name = Some(<<>>)
    /\ last.ret = Some(<<>>)
    /\ cache # EmptyCache

\* the seasons and leagues a standings key can name
KeySeasons == {"2023", "2024"}
KeyLeagues == {leagues[i].id : i \in 1..Len(leagues)}

\* C38: every get_standings call that reaches the store passes a season,
\* the one its cache key names, so the calendar-year default of the client
\* never applies; a cached standings entry holds rows of exactly the league
\* and season its key names.
C38_SeasonOfKey ==
    /\ (last.op = "get_standings" /\ last.client # <<>>) =>
            /\ last.client[1].season # ""
            /\ last.client[1].season = last.target.season
            /\ last.key = key_standings(last.target.id,
                                        last.client[1].season)
    /\ \A id \in KeyLeagues, season \in KeySeasons :
            key_standings(id, season) \in DOMAIN cache =>
                \A i \in 1..Len(cache[key_standings(id, season)].data) :
                    LET row == cache[key_standings(id, season)].data[i]
                    IN  row.season = season /\ row.league_id = id

\* standings were fetched for the season the service derived, which is not
\* the calendar year
C38_Witness ==
    /\ last.op = "get_standings"
    /\ last.client # <<>>
    /\ last.outcome = "return"
    /\ last.client[1].season = "2023"
    /\ today.year = 2024
    /\ last.ret.v # <<>>
    /\ key_standings(1, "2023") \in DOMAIN cache

(***************************************************************************)
(* The service after cleanup()                                             *)
(***************************************************************************)
\* the client has let go of its pool: cleanup() has run
CleanedUp == pool.client_pool = 0

\* the entry a call of the observed key finds live before it acts
FindsLive ==
    /\ last'.key \in DOMAIN cache
    /\ ~Stale(cache[last'.key], now)

\* C34: once cleanup() has run, no step of the service gives the client a
\* pool or a database handle again; an operation whose key has a live cache
\* entry returns the cached list, and every operation that reaches the
\* DataClient ends in an exception and returns no data.
C34_NoServiceAfterCleanup ==
    [][CleanedUp =>
            /\ pool'.client_pool = 0
            /\ ~client_db'
            /\ Len(pool'.objs) = Len(pool.objs)
            /\ pool'.slot = pool.slot
            /\ (last'.op \in ServiceOps /\ last'.key # "") =>
                  IF FindsLive
                  THEN /\ last'.outcome = "return"
                       /\ last'.ret = Some(cache[last'.key].data)
                       /\ last'.client = <<>>
                  ELSE /\ last'.outcome # "return"
                       /\ last'.ret.isNone
                       /\ last'.client # <<>>
                       /\ last'.writes = <<>>]_vars

\* after cleanup() a call that reached the DataClient has failed
C34_Witness ==
    /\ CleanedUp
    /\ last.op \in ServiceOps
    /\ last.client # <<>>
    /\ last.outcome = "UnboundLocalError"

\* after cleanup() a call was served from an entry that outlived it
C34_WitnessCached ==
    /\ CleanedUp
    /\ FoundFresh
    /\ last.outcome = "return"
    /\ last.ret.v # <<>>

(***************************************************************************)
(* Names of nothing but whitespace: SpecBlank                              *)
(***************************************************************************)
BlankNames == {Some(<<" ">>), Some(<<" ", " ">>)}

BlankTeamTables ==
    { TeamsTable,
      << [name |-> <<"b", "b">>, id |-> 2],
         [name |-> <<"A", "b">>, id |-> 1] >>,
      <<>> }

BlankLeagueTables ==
    { LeaguesTable,
      << [name |-> <<"c">>, id |-> 2, aliases |-> <<>>],
         [name |-> <<"a", "b">>, id |-> 1, aliases |-> << <<"L", "b">> >>] >>,
      << [name |-> <<"c">>, id |-> 2, aliases |-> <<>>] >> }

InitBlank ==
    /\ now = 0
    /\ cache = EmptyCache
    /\ stats = ZeroStats
    /\ last = NoObs
    /\ today \in Todays
    /\ teams \in BlankTeamTables
    /\ leagues \in BlankLeagueTables
    /\ matches = MatchDocs
    /\ standings = StandingDocs
    /\ client_db = TRUE
    /\ pool = ServicePool
    /\ loop = IdleLoop

NextBlank ==
    \/ Tick
    \/ \E name \in BlankNames : get_team_upcoming_matches(name, 1)
    \/ \E name \in BlankNames : get_league_upcoming_matches(name, 1)
    \/ \E name \in BlankNames : get_team_match_results(name, 1)
    \/ \E name \in BlankNames : get_league_match_results(name, 1)
    \/ \E name \in BlankNames : get_standings(name, NoneV)

SpecBlank == InitBlank /\ [][NextBlank]_vars

\* the observed call was given a name of one or more spaces
BlankAsked ==
    /\ last.op \in ServiceOps
    /\ ~last.name.isNone
    /\ last.name.v # <<>>
    /\ \A i \in 1..Len(last.name.v) : last.name.v[i] = " "

\* the leagues that have an alias, by position
WithAlias == {i \in 1..Len(leagues) : leagues[i].aliases # <<>>}

\* the entity a blank name stands for: the first team, the first league
\* with an alias; NoneId where there is none
BlankEntity ==
    IF last.op \in TeamOps
    THEN IF teams # <<>> THEN teams[1].id ELSE NoneId
    ELSE IF WithAlias # {} THEN leagues[FirstIndex(WithAlias)].id
         ELSE NoneId

\* C37: a name of nothing but whitespace is not taken as missing; it
\* resolves to the first team of the table (for leagues: the first entry
\* with an alias), the call goes on to the cache and the store for that
\* entity, and where the table has no such entry the call raises the
\* operation's not-found error.
C37_BlankNameResolvesFirst ==
    BlankAsked =>
        IF BlankEntity = NoneId
        THEN /\ last.outcome = IF last.op \in TeamOps
                               THEN "InvalidTeamError"
                               ELSE "InvalidLeagueError"
             /\ last.key = ""
        ELSE /\ last.key # ""
             /\ last.target.id = BlankEntity
             /\ last.client # <<>> =>
                   IF last.op \in TeamOps
                   THEN last.client[1].team_id = BlankEntity
                   ELSE last.client[1].league_id = BlankEntity

\* a blank team name has fetched the matches of the first team
C37_Witness ==
    /\ BlankAsked
    /\ last.op = "get_team_upcoming_matches"
    /\ teams # <<>>
    /\ last.target.id = teams[1].id
    /\ last.client # <<>>
    /\ last.outcome = "return"
    /\ last.ret.v # <<>>

\* a blank league name has passed over a league without aliases
C37_WitnessLeague ==
    /\ BlankAsked
    /\ last.op \in LeagueOps
    /\ Len(leagues) = 2
    /\ last.target.id = leagues[2].id
    /\ last.client # <<>>
    /\ last.outcome = "return"

(***************************************************************************)
(* The limit the tool functions pass on: SpecLimit                         *)
(***************************************************************************)
AskedLimits == {-1, 0, 1, 20, 21}
LimitNames == {NoneV, Some(<<"a", "b">>)}

NextLimit ==
    \/ Tick
    \/ \E league \in LimitNames, team \in LimitNames, limit \in AskedLimits :
          tool_get_upcoming_matches(league, team, limit)
    \/ \E league \in LimitNames, team \in LimitNames, limit \in AskedLimits :
          tool_get_match_results(league, team, limit)

SpecLimit == Init /\ [][NextLimit]_vars

\* the observation is of a fixtures call a tool function made, far enough
\* for its limit to show
PassedLimit ==
    /\ last.op \in ServiceOps \ {"get_standings"}
    /\ last.key # ""

\* the cache key of the observed call for a given limit
KeyFor(limit) ==
    CASE last.op = "get_team_upcoming_matches" ->
             key_team_upcoming(last.target.id, limit)
      [] last.op = "get_league_upcoming_matches" ->
             key_league_upcoming(last.target.id, limit)
      [] last.op = "get_team_match_results" ->
             key_team_past(last.target.id, limit)
      [] OTHER -> key_league_past(last.target.id, limit)

\* C31: the limit get_upcoming_matches and get_match_results pass to the
\* service lies in 1..20: 1 for a request below 1, 20 for a request above
\* 20, the request itself otherwise; it is the limit of the cache key and of
\* the DataClient call.
C31_LimitClamped ==
    PassedLimit =>
        /\ last.target.limit \in 1..20
        /\ last.asked < 1 => last.target.limit = 1
        /\ last.asked > 20 => last.target.limit = 20
        /\ last.asked \in 1..20 => last.target.limit = last.asked
        /\ last.key = KeyFor(last.target.limit)
        /\ last.client # <<>> => last.client[1].limit = last.target.limit

\* a request for 21 matches has fetched 20 at most
C31_Witness ==
    /\ PassedLimit
    /\ last.asked = 21
    /\ last.target.limit = 20
    /\ last.client # <<>>
    /\ last.outcome = "return"

\* a request for -1 matches has fetched one
C31_WitnessLow ==
    /\ PassedLimit
    /\ last.asked = -1
    /\ last.target.limit = 1
    /\ last.outcome = "return"
    /\ Len(last.ret.v) = 1

(***************************************************************************)
(* FootballAgent and the chat endpoints: SpecAgent.  The language model    *)
(* behind agent.ainvoke is an input: the call raises, or returns a list of *)
(* messages.  A confidence is kept in hundredths.                          *)
(***************************************************************************)
MaxMessages == 2

\* the content of a message: a str, or a list of content blocks
Text(s) == [is_str |-> TRUE, text |-> s]
Blocks == [is_str |-> FALSE, text |-> ""]

AIMessage(content, tool_calls) ==
    [content |-> content, tool_calls |-> tool_calls]

AgentMessages ==
    { AIMessage(Text("respuesta"), <<>>),
      AIMessage(Text("tabla"), <<"get_standings">>),
      AIMessage(Blocks, <<>>) }

\* what `await self.agent.ainvoke(...)` does
Invoked(messages) == [exc |-> "", messages |-> messages]
InvokeRaised == [exc |-> "Exception", messages |-> <<>>]
AgentResults ==
    {InvokeRaised} \cup
    {Invoked(ms) : ms \in UNION {[1..n -> AgentMessages] : n \in 0..MaxMessages}}

\* the fields the response models declare
ChatResponseFields == {"response", "confidence", "sources", "timestamp"}
MatchRecommendationResponseFields ==
    {"recommendation", "prediction", "key_factors", "confidence"}

\* Model(**kwargs) of a pydantic model without an `extra` setting: the text
\* field must be a str and confidence lie in 0.0..1.0, or ValidationError is
\* raised; a keyword that names no field is ignored
BaseModel_new(fields, text_field, kwargs) ==
    IF ~kwargs[text_field].is_str \/ kwargs.confidence \notin 0..100
    THEN Raised("ValidationError", <<>>)
    ELSE Returned([f \in fields \cap DOMAIN kwargs |->
                      IF f = text_field THEN kwargs[f].text ELSE kwargs[f]])

ChatResponse(kwargs) ==
    BaseModel_new(ChatResponseFields, "response", kwargs)
MatchRecommendationResponse(kwargs) ==
    BaseModel_new(MatchRecommendationResponseFields, "recommendation",
                  kwargs)

\* obj.name
getattr(obj, name) ==
    IF name \in DOMAIN obj THEN Returned(obj[name])
    ELSE Raised("AttributeError", <<>>)

\* the names of the tool calls of the messages, in order
RECURSIVE tool_names(_)
tool_names(messages) ==
    IF messages = <<>> THEN <<>>
    ELSE Head(messages).tool_calls \o tool_names(Tail(messages))

\* `used_tools or None`
or_None(list) == IF list = <<>> THEN NoneV ELSE Some(list)

\* the try block got as far as building its response
Answered(result) == result.exc = "" /\ result.messages # <<>>

\* FootballAgent.process_message, given what ainvoke does, at time t
process_message(result, t) ==
    LET used_tools == tool_names(result.messages)
        made == IF Answered(result)
                THEN ChatResponse(
                       [response |->
                            result.messages[Len(result.messages)].content,
                        confidence |-> 85,
                        sources |-> IF used_tools # <<>>
                                    THEN <<"Fuentes externas + LLM">>
                                    ELSE <<"LLM">>,
                        used_tools |-> or_None(used_tools),
                        timestamp |-> t])
                ELSE Raised("Exception", <<>>)
    IN  IF made.exc = "" THEN made
        ELSE ChatResponse(
               [response |-> Text("Error al procesar tu solicitud"),
                confidence |-> 0,
                sources |-> <<>>,
                used_tools |-> NoneV,
                timestamp |-> t])

\* FootballAgent.analyze_match
analyze_match(result) ==
    LET used_tools == tool_names(result.messages)
        made == IF Answered(result)
                THEN MatchRecommendationResponse(
                       [recommendation |->
                            result.messages[Len(result.messages)].content,
                        prediction |-> IF used_tools # <<>>
                                       THEN "Fuentes externas"
                                       ELSE "Conocimiento general",
                        key_factors |-> <<"Forma reciente",
                                          "Historial directo",
                                          "Ventaja local">>,
                        used_tools |-> or_None(used_tools),
                        confidence |-> 85])
                ELSE Raised("Exception", <<>>)
    IN  IF made.exc = "" THEN made
        ELSE MatchRecommendationResponse(
               [recommendation |-> Text("Error"),
                prediction |-> "Error",
                key_factors |-> <<>>,
                used_tools |-> NoneV,
                confidence |-> 0])

\* the body of an endpoint after its agent call: the log line reads
\* response.used_tools; any exception becomes HTTPException(500)
endpoint_reply(made) ==
    IF made.exc # ""
    THEN [status |-> 500, outcome |-> made.exc, body |-> NoneV]
    ELSE IF getattr(made.value, "used_tools").exc # ""
    THEN [status |-> 500,
          outcome |-> getattr(made.value, "used_tools").exc,
          body |-> NoneV]
    ELSE [status |-> 200, outcome |-> "return", body |-> Some(made.value)]

\* get_football_agent raised: FootballAgent.__init__ re-raises the failure
\* of create_agent, and the request is answered 500
NoAgent == [status |-> 500, outcome |-> "Exception", body |-> NoneV]

\* a direct call of one of the two methods of the agent
AgentCall(op, result, made) ==
    /\ last' = [NoObs EXCEPT
                  !.op = op,
                  !.before = Some(result),
                  !.at = now,
                  !.outcome = IF made.exc = "" THEN "return" ELSE made.exc,
                  !.ret = IF made.exc = "" THEN Some(made.value) ELSE NoneV]
    /\ UNCHANGED <<now, cache, stats, svc>>

ProcessMessage(result) ==
    AgentCall("process_message", result, process_message(result, now))

AnalyzeMatch(result) ==
    AgentCall("analyze_match", result, analyze_match(result))

\* a schema-valid request to an endpoint, answered
Answer(op, result, reply) ==
    /\ last' = [NoObs EXCEPT
                  !.op = op,
                  !.before = Some(result),
                  !.at = now,
                  !.outcome = reply.outcome,
                  !.ret = reply.body,
                  !.status = reply.status]
    /\ UNCHANGED <<now, cache, stats, svc>>

\* POST /chat; built: create_agent succeeded in the dependency
chat_endpoint(built, result) ==
    Answer("chat_endpoint", result,
           IF built THEN endpoint_reply(process_message(result, now))
           ELSE NoAgent)

\* POST /chat/recommend
match_recommendation_endpoint(built, result) ==
    Answer("match_recommendation_endpoint", result,
           IF built THEN endpoint_reply(analyze_match(result))
           ELSE NoAgent)

NextAgent ==
    \/ Tick
    \/ \E result \in AgentResults : ProcessMessage(result)
    \/ \E result \in AgentResults : AnalyzeMatch(result)
    \/ \E built \in BOOLEAN, result \in AgentResults :
          chat_endpoint(built, result)
    \/ \E built \in BOOLEAN, result \in AgentResults :
          match_recommendation_endpoint(built, result)

SpecAgent == InitCache /\ [][NextAgent]_vars

(***************************************************************************)
(* Claims about the agent, checked under SpecAgent                         *)
(***************************************************************************)
AgentOps == {"process_message", "analyze_match"}
EndpointOps == {"chat_endpoint", "match_recommendation_endpoint"}

\* the agent's call gave a last message with text for content
Succeeded(result) ==
    /\ Answered(result)
    /\ result.messages[Len(result.messages)].content.is_str

\* the response names no used tools
NoUsedTools(response) ==
    "used_tools" \in DOMAIN response => response.used_tools.isNone

\* process_message and analyze_match return a response whatever the agent
\* does: confidence 0.85 when the agent answered with text, 0.0 otherwise
AgentMethodsNeverRaise ==
    last.op \in AgentOps =>
        /\ last.outcome = "return"
        /\ ~last.ret.isNone
        /\ IF Succeeded(last.before.v)
           THEN last.ret.v.confidence = 85
           ELSE last.ret.v.confidence = 0 /\ NoUsedTools(last.ret.v)

\* C32: process_message and analyze_match never raise, a failure giving a
\* response of confidence 0.0 without used tools and a success one of
\* confidence 0.85; hence the chat and recommend endpoints answer 200 to
\* every schema-valid request, with a confidence within 0.0..1.0.
C32_EndpointsAlwaysAnswer ==
    /\ AgentMethodsNeverRaise
    /\ last.op \in EndpointOps =>
          /\ last.status = 200
          /\ ~last.ret.isNone
          /\ last.ret.v.confidence \in 0..100

\* C32, the part about the two methods alone
C32_AgentNeverRaises == AgentMethodsNeverRaise

\* whatever the agent does, an endpoint answers 500
C32_EndpointsAnswer500 == last.op \in EndpointOps => last.status = 500

====
